---- MODULE Spec2Model ----
(***************************************************************************)
(* A model of the Lark channel of nanoclaw (src/src/channels/lark.ts,      *)
(* lines 1-616): the outgoing delivery path (sendMessage, _sendDirect,     *)
(* flushOutgoingQueue), the connection lifecycle (connect, disconnect) and *)
(* the inbound path (handleIncomingMessage, cleanupDedup), its pure text   *)
(* functions (splitMarkdown, markdownToPostContent), and the OAuth token   *)
(* of src/src/claude-credentials.ts (getClaudeOAuthToken).                 *)
(*                                                                         *)
(* JavaScript runs one callback at a time: the code between two awaits is  *)
(* one atomic step.  Every action below is one such step: the start of a   *)
(* call up to its first await, or the continuation that runs when an       *)
(* awaited platform request settles, up to the next await.                 *)
(***************************************************************************)
EXTENDS Integers, Sequences, FiniteSets, TLC

\* ------------------------------------------------------------------ bounds

\* sendMessage calls made in one behaviour
MaxSends == 2
\* connect() calls made in one behaviour
MaxConnects == 2
\* the clock stops after this many ticks
MaxTicks == 5
\* distinct message ids inbound events carry
MaxMsgIds == 1
\* the pieces a JID string is made of
MaxJidLen == 3
\* the longest text and the greatest limit splitMarkdown is called with
MaxSplitLen == 6
MaxSplitLimit == 3
\* the lines of the longest text markdownToPostContent is called with
MaxMdLines == 3
\* getClaudeOAuthToken calls made in one behaviour
MaxTokenCalls == 2
\* lark.ts:16 sets MAX_TEXT_LENGTH to 4000; the model scales the limit down so
\* that texts longer than the limit can be enumerated, and keeps it above the
\* length of a short text with its mention markup
MAX_TEXT_LENGTH == 7

\* ------------------------------------------------------------- text values

NL == "\n"

\* `<at user_id="${id}">${name}</at> ` (lark.ts:447, 497): the markup, each
\* piece one element, followed by the separating space
AtMarkup(u) == << "<at user_id=", u.id, ">", u.name, "</at>", " " >>

NoUser == [id |-> "none", name |-> "none"]
User1 == [id |-> "ou_U1", name |-> "Ann"]

Max(a, b) == IF a >= b THEN a ELSE b
Min(a, b) == IF a <= b THEN a ELSE b

\* s.slice(from) and s.slice(0, to) with 0-based offsets
SliceFrom(s, from) == SubSeq(s, from + 1, Len(s))
SliceTo(s, to) == SubSeq(s, 1, Min(to, Len(s)))

\* String.prototype.lastIndexOf(sub, fromIndex) for sub = "\n\n" and sub = "\n":
\* the greatest 0-based position p <= fromIndex at which sub starts, or -1
LastIndexOfNLNL(s, fromIndex) ==
    LET P == { p \in 0..Min(fromIndex, Len(s) - 2) : s[p + 1] = NL /\ s[p + 2] = NL }
    IN  IF P = {} THEN -1 ELSE CHOOSE p \in P : \A q \in P : q <= p

LastIndexOfNL(s, fromIndex) ==
    LET P == { p \in 0..Min(fromIndex, Len(s) - 1) : s[p + 1] = NL }
    IN  IF P = {} THEN -1 ELSE CHOOSE p \in P : \A q \in P : q <= p

\* the paragraph cut skips one of the two newlines only
RECURSIVE SplitLoop_KeepsOneNewline(_, _)
SplitLoop_KeepsOneNewline(remaining, maxLen) ==
    IF Len(remaining) = 0 THEN << >>
    ELSE IF Len(remaining) <= maxLen THEN << remaining >>
    ELSE LET d == LastIndexOfNLNL(remaining, maxLen)
             n == LastIndexOfNL(remaining, maxLen)
         IN  IF d > 0
             THEN << SliceTo(remaining, d) >>
                  \o SplitLoop_KeepsOneNewline(SliceFrom(remaining, d + 1), maxLen)
             ELSE IF n > 0
             THEN << SliceTo(remaining, n) >>
                  \o SplitLoop_KeepsOneNewline(SliceFrom(remaining, n + 1), maxLen)
             ELSE << SliceTo(remaining, maxLen) >>
                  \o SplitLoop_KeepsOneNewline(SliceFrom(remaining, maxLen), maxLen)

\* the line cut leaves the newline at the end of the chunk
RECURSIVE SplitLoop_CutsAfterNewline(_, _)
SplitLoop_CutsAfterNewline(remaining, maxLen) ==
    IF Len(remaining) = 0 THEN << >>
    ELSE IF Len(remaining) <= maxLen THEN << remaining >>
    ELSE LET d == LastIndexOfNLNL(remaining, maxLen)
             n == LastIndexOfNL(remaining, maxLen)
         IN  IF d > 0
             THEN << SliceTo(remaining, d) >>
                  \o SplitLoop_CutsAfterNewline(SliceFrom(remaining, d + 2), maxLen)
             ELSE IF n > 0
             THEN << SliceTo(remaining, n + 1) >>
                  \o SplitLoop_CutsAfterNewline(SliceFrom(remaining, n + 1), maxLen)
             ELSE << SliceTo(remaining, maxLen) >>
                  \o SplitLoop_CutsAfterNewline(SliceFrom(remaining, maxLen), maxLen)

\* the hard cut resumes one character too far
RECURSIVE SplitLoop_HardCutDropsOne(_, _)
SplitLoop_HardCutDropsOne(remaining, maxLen) ==
    IF Len(remaining) = 0 THEN << >>
    ELSE IF Len(remaining) <= maxLen THEN << remaining >>
    ELSE LET d == LastIndexOfNLNL(remaining, maxLen)
             n == LastIndexOfNL(remaining, maxLen)
         IN  IF d > 0
             THEN << SliceTo(remaining, d) >>
                  \o SplitLoop_HardCutDropsOne(SliceFrom(remaining, d + 2), maxLen)
             ELSE IF n > 0
             THEN << SliceTo(remaining, n) >>
                  \o SplitLoop_HardCutDropsOne(SliceFrom(remaining, n + 1), maxLen)
             ELSE << SliceTo(remaining, maxLen) >>
                  \o SplitLoop_HardCutDropsOne(SliceFrom(remaining, maxLen + 1), maxLen)

\* the loop cuts at a newline found at position 0 too (>= 0 for the > 0 of
\* lark.ts:170 and 178)
RECURSIVE SplitLoop_CutsAtStart(_, _)
SplitLoop_CutsAtStart(remaining, maxLen) ==
    IF Len(remaining) = 0 THEN << >>
    ELSE IF Len(remaining) <= maxLen THEN << remaining >>
    ELSE LET d == LastIndexOfNLNL(remaining, maxLen)
             n == LastIndexOfNL(remaining, maxLen)
         IN  IF d >= 0
             THEN << SliceTo(remaining, d) >>
                  \o SplitLoop_CutsAtStart(SliceFrom(remaining, d + 2), maxLen)
             ELSE IF n >= 0
             THEN << SliceTo(remaining, n) >>
                  \o SplitLoop_CutsAtStart(SliceFrom(remaining, n + 1), maxLen)
             ELSE << SliceTo(remaining, maxLen) >>
                  \o SplitLoop_CutsAtStart(SliceFrom(remaining, maxLen), maxLen)

\* the loop tries the single newline before the double one
RECURSIVE SplitLoop_SingleNewlineFirst(_, _)
SplitLoop_SingleNewlineFirst(remaining, maxLen) ==
    IF Len(remaining) = 0 THEN << >>
    ELSE IF Len(remaining) <= maxLen THEN << remaining >>
    ELSE LET d == LastIndexOfNLNL(remaining, maxLen)
             n == LastIndexOfNL(remaining, maxLen)
         IN  IF n > 0
             THEN << SliceTo(remaining, n) >>
                  \o SplitLoop_SingleNewlineFirst(SliceFrom(remaining, n + 1), maxLen)
             ELSE IF d > 0
             THEN << SliceTo(remaining, d) >>
                  \o SplitLoop_SingleNewlineFirst(SliceFrom(remaining, d + 2), maxLen)
             ELSE << SliceTo(remaining, maxLen) >>
                  \o SplitLoop_SingleNewlineFirst(SliceFrom(remaining, maxLen), maxLen)

\* the while loop of splitMarkdown (lark.ts:163-188)
RECURSIVE SplitLoop(_, _)
SplitLoop(remaining, maxLen) ==
    IF Len(remaining) = 0 THEN << >>
    ELSE IF Len(remaining) <= maxLen THEN << remaining >>
    ELSE LET d == LastIndexOfNLNL(remaining, maxLen)
             n == LastIndexOfNL(remaining, maxLen)
         IN  IF d > 0
             THEN << SliceTo(remaining, d) >> \o SplitLoop(SliceFrom(remaining, d + 2), maxLen)
             ELSE IF n > 0
             THEN << SliceTo(remaining, n) >> \o SplitLoop(SliceFrom(remaining, n + 1), maxLen)
             ELSE << SliceTo(remaining, maxLen) >> \o SplitLoop(SliceFrom(remaining, maxLen), maxLen)

\* splitMarkdown without the early return of lark.ts:158
splitMarkdown_NoEarlyReturn(text, maxLen) == SplitLoop(text, maxLen)

\* splitMarkdown(text, maxLen) (lark.ts:157-191)
splitMarkdown(text, maxLen) ==
    IF Len(text) <= maxLen THEN << text >> ELSE SplitLoop(text, maxLen)

\* what each cut of the loop consumes (lark.ts:172-173, 180-181, 186-187): the two
\* newlines of a paragraph cut, the newline of a line cut, nothing at a hard cut
RECURSIVE CutLoop(_, _)
CutLoop(remaining, maxLen) ==
    IF Len(remaining) <= maxLen THEN << >>
    ELSE LET d == LastIndexOfNLNL(remaining, maxLen)
             n == LastIndexOfNL(remaining, maxLen)
         IN  IF d > 0
             THEN << << NL, NL >> >> \o CutLoop(SliceFrom(remaining, d + 2), maxLen)
             ELSE IF n > 0
             THEN << << NL >> >> \o CutLoop(SliceFrom(remaining, n + 1), maxLen)
             ELSE << << >> >> \o CutLoop(SliceFrom(remaining, maxLen), maxLen)

\* the texts and limits splitMarkdown is called with
SplitAlphabet == { "a", "b", NL }
SplitTexts == UNION { [ 1..n -> SplitAlphabet ] : n \in 0..MaxSplitLen }
SplitLimits == 1..MaxSplitLimit

\* ------------------------------------------------- markdownToPostContent

\* A line of markdown is a sequence of elements: one character each, except the
\* pieces of the mention markup, which AtMarkup keeps whole.  The pieces that
\* begin with "<", and what is left of them once that character is consumed:
\* the character ` stands as "bt": a TLA+ string cannot hold it
BT == "bt"

LtPieces == { "<at user_id=", "</at>" }
RestOfPiece(e) == IF e = "<at user_id=" THEN "at user_id=" ELSE "/at>"

\* the spans of a post (lark.ts:39, 47, 55, 63, 71, 79, 85); a field the code
\* leaves out is the empty sequence
TextSpan(text, style) ==
    [ tag |-> "text", text |-> text, style |-> style, href |-> << >>,
      user_id |-> << >>, user_name |-> << >> ]
LinkSpan(text, href) ==
    [ tag |-> "a", text |-> text, style |-> << >>, href |-> href,
      user_id |-> << >>, user_name |-> << >> ]
AtSpan(user_id, user_name) ==
    [ tag |-> "at", text |-> << >>, style |-> << >>, href |-> << >>,
      user_id |-> user_id, user_name |-> user_name ]

\* the least position from `from` on at which s holds an element of S; 0 if none
FirstIn(s, from, S) ==
    LET P == { p \in from..Len(s) : s[p] \in S }
    IN  IF P = {} THEN 0 ELSE CHOOSE p \in P : \A q \in P : p <= q

\* the number of leading elements of s that belong to S
LeadingCount(s, S) ==
    LET P == { p \in 1..Len(s) : s[p] \notin S }
    IN  IF P = {} THEN Len(s) ELSE (CHOOSE p \in P : \A q \in P : p <= q) - 1

NoMatch == [ len |-> 0, a |-> << >>, b |-> << >> ]

\* /^<at user_id="([^"]+)">([^<]*)<\/at>/ (lark.ts:37): len is the length of the
\* match, 0 for none
AtMatch(rem) ==
    LET close == FirstIn(rem, 2, { "<at user_id=", ">" })
        end   == FirstIn(rem, close + 1, LtPieces)
    IN  IF /\ Len(rem) >= 1 /\ rem[1] = "<at user_id="
           /\ close >= 3 /\ rem[close] = ">"
           /\ end > 0 /\ rem[end] = "</at>"
        THEN [ len |-> end, a |-> SubSeq(rem, 2, close - 1),
               b |-> SubSeq(rem, close + 1, end - 1) ]
        ELSE NoMatch

\* /^\[([^\]]+)\]\(([^)]+)\)/ (lark.ts:45)
LinkMatch(rem) ==
    LET cb == FirstIn(rem, 2, { "]" })
        cp == FirstIn(rem, cb + 2, { ")" })
    IN  IF /\ Len(rem) >= 1 /\ rem[1] = "["
           /\ cb >= 3 /\ Len(rem) > cb /\ rem[cb + 1] = "("
           /\ cp >= cb + 3
        THEN [ len |-> cp, a |-> SubSeq(rem, 2, cb - 1), b |-> SubSeq(rem, cb + 2, cp - 1) ]
        ELSE NoMatch

\* /^`([^`]+)`/ (lark.ts:53)
CodeMatch(rem) ==
    LET close == FirstIn(rem, 2, { BT })
    IN  IF Len(rem) >= 1 /\ rem[1] = BT /\ close >= 3
        THEN [ len |-> close, a |-> SubSeq(rem, 2, close - 1), b |-> << >> ]
        ELSE NoMatch

\* /^\*\*(.+?)\*\*/ (lark.ts:61): the lazy group takes at least one character and
\* ends at the first "**" after it
BoldMatch(rem) ==
    LET P == { p \in 4..(Len(rem) - 1) : rem[p] = "*" /\ rem[p + 1] = "*" }
        close == CHOOSE p \in P : \A q \in P : p <= q
    IN  IF Len(rem) >= 2 /\ rem[1] = "*" /\ rem[2] = "*" /\ P # {}
        THEN [ len |-> close + 1, a |-> SubSeq(rem, 3, close - 1), b |-> << >> ]
        ELSE NoMatch

\* /^\*([^*]+)\*/ (lark.ts:69)
ItalicMatch(rem) ==
    LET close == FirstIn(rem, 2, { "*" })
    IN  IF Len(rem) >= 1 /\ rem[1] = "*" /\ close >= 3
        THEN [ len |-> close, a |-> SubSeq(rem, 2, close - 1), b |-> << >> ]
        ELSE NoMatch

\* /^([^*`\[<]+)/ (lark.ts:77): the length of the plain run
PlainMatch(rem) ==
    LET P == { p \in 1..Len(rem) : rem[p] \in { "*", BT, "[" } \cup LtPieces }
    IN  IF P = {} THEN Len(rem) ELSE (CHOOSE p \in P : \A q \in P : p <= q) - 1

\* parseLineToElements(line) (lark.ts:32-91)
RECURSIVE parseLineToElements(_)
parseLineToElements(remaining) ==
    IF Len(remaining) = 0 THEN << >>
    ELSE LET at     == AtMatch(remaining)
             link   == LinkMatch(remaining)
             code   == CodeMatch(remaining)
             bold   == BoldMatch(remaining)
             italic == ItalicMatch(remaining)
             plain  == PlainMatch(remaining)
             After(n) == parseLineToElements(SubSeq(remaining, n + 1, Len(remaining)))
         IN  IF at.len > 0 THEN << AtSpan(at.a, at.b) >> \o After(at.len)
             ELSE IF link.len > 0 THEN << LinkSpan(link.a, link.b) >> \o After(link.len)
             ELSE IF code.len > 0 THEN << TextSpan(code.a, << "code" >>) >> \o After(code.len)
             ELSE IF bold.len > 0 THEN << TextSpan(bold.a, << "bold" >>) >> \o After(bold.len)
             ELSE IF italic.len > 0
             THEN << TextSpan(italic.a, << "italic" >>) >> \o After(italic.len)
             ELSE IF plain > 0
             THEN << TextSpan(SubSeq(remaining, 1, plain), << >>) >> \o After(plain)
             ELSE IF remaining[1] \in LtPieces
             THEN << TextSpan(<< "<" >>, << >>) >>
                  \o parseLineToElements(<< RestOfPiece(remaining[1]) >> \o Tail(remaining))
             ELSE << TextSpan(<< remaining[1] >>, << >>) >> \o After(1)

\* text.split('\n') (lark.ts:102)
RECURSIVE SplitLines(_)
SplitLines(text) ==
    LET nl == FirstIn(text, 1, { NL })
    IN  IF nl = 0 THEN << text >>
        ELSE << SubSeq(text, 1, nl - 1) >> \o SplitLines(SubSeq(text, nl + 1, Len(text)))

\* line.trimStart().startsWith('```') (lark.ts:109)
IsFence(line) ==
    LET ws == LeadingCount(line, { " " })
    IN  Len(line) >= ws + 3 /\ \A p \in (ws + 1)..(ws + 3) : line[p] = BT

\* line.match(/^(#{1,6})\s+(.*)/) (lark.ts:122): 0 for no match, else the position
\* at which group 2 starts
HeadingMatch(line) ==
    LET h == LeadingCount(line, { "#" })
        w == LeadingCount(SubSeq(line, h + 1, Len(line)), { " " })
    IN  IF h >= 1 /\ h <= 6 /\ w >= 1 THEN h + w + 1 ELSE 0

\* the heading keeps the styles its elements were parsed with
HeadingBlock_NotBold(title) == parseLineToElements(title)

\* lark.ts:124-131: the elements of the heading text, the text spans among them
\* with bold added to their style
HeadingBlock(title) ==
    LET headingElements == parseLineToElements(title)
    IN  [ n \in 1..Len(headingElements) |->
            IF headingElements[n].tag = "text"
            THEN [ headingElements[n] EXCEPT !.style = Append(@, "bold") ]
            ELSE headingElements[n] ]

\* a blank line outside a fence is dropped
BlocksOfLine_DropsBlank(line, inCodeBlock) ==
    IF IsFence(line) \/ inCodeBlock THEN << << TextSpan(line, << >>) >> >>
    ELSE IF HeadingMatch(line) > 0
    THEN << HeadingBlock(SubSeq(line, HeadingMatch(line), Len(line))) >>
    ELSE IF Len(line) = 0 THEN << >>
    ELSE << parseLineToElements(line) >>

\* the body of the loop of markdownToPostContent (lark.ts:106-145): the blocks
\* pushed for one line, given the fence state before the line
BlocksOfLine(line, inCodeBlock) ==
    IF IsFence(line) \/ inCodeBlock THEN << << TextSpan(line, << >>) >> >>
    ELSE IF HeadingMatch(line) > 0
    THEN << HeadingBlock(SubSeq(line, HeadingMatch(line), Len(line))) >>
    ELSE IF Len(line) = 0 THEN << << TextSpan(<< >>, << >>) >> >>
    ELSE IF Len(parseLineToElements(line)) > 0 THEN << parseLineToElements(line) >>
    ELSE << >>

\* the loop over the lines (lark.ts:106-145)
RECURSIVE PostLoop(_, _)
PostLoop(lines, inCodeBlock) ==
    IF Len(lines) = 0 THEN << >>
    ELSE BlocksOfLine(Head(lines), inCodeBlock)
         \o PostLoop(Tail(lines), IF IsFence(Head(lines)) THEN ~inCodeBlock ELSE inCodeBlock)

\* markdownToPostContent(text) (lark.ts:101-151)
markdownToPostContent(text) ==
    LET content == PostLoop(SplitLines(text), FALSE)
    IN  [ zh_cn |-> [ content |-> content ], en_us |-> [ content |-> content ] ]

\* the lines markdownToPostContent is called with: one for every branch of the two
\* parsers, and lines that just miss a branch
MdLines ==
    { << >>, << "a" >>, << " " >>,
      << BT, BT, BT >>, << " ", BT, BT, BT, "a" >>, << BT, BT >>,
      << "#", " ", "a" >>, << "#", "a" >>, << "#", " " >>,
      << "#", "#", " ", "*", "*", "a", "*", "*", " ", "a" >>,
      << "#", " ", BT, "a", BT >>,
      << "#", " ", "[", "a", "]", "(", "u", ")" >>,
      << "#", "#", "#", "#", "#", "#", "#", " ", "a" >>,
      << "*", "a", "*" >>, << "*", "*", "a", "*", "*", "a" >>, << "*", "*" >>,
      << "[", "a", "]" >>,
      AtMarkup(User1) \o << "a" >>, << "</at>", "a" >> }

\* lines joined by newlines
RECURSIVE JoinLines(_)
JoinLines(lines) ==
    IF Len(lines) = 1 THEN lines[1] ELSE lines[1] \o << NL >> \o JoinLines(Tail(lines))

MdTexts == { JoinLines(ls) : ls \in UNION { [ 1..n -> MdLines ] : n \in 1..MaxMdLines } }

\* ------------------------------------------------- claude-credentials.ts

\* a token or a time that is null, undefined or missing
Absent == "absent"
Null == "null"
\* an expiresAt that is null, undefined or missing
NoExpiry == -1

\* REFRESH_MARGIN_MS (claude-credentials.ts:17)
REFRESH_MARGIN_MS == 5 * 60 * 1000

\* What readCredentialsFile finds (claude-credentials.ts:32-40): present is false
\* when the file cannot be read or parsed or holds no claudeAiOauth, and then
\* readCredentialsFile returns null
NoFile == [ present |-> FALSE, accessToken |-> Absent, refreshToken |-> Absent,
            expiresAt |-> NoExpiry ]

\* the credentials the file can hold at the start; expiresAt is in milliseconds
CredentialFiles ==
    { NoFile }
    \cup [ present : { TRUE }, accessToken : { Absent, "at0" },
           refreshToken : { Absent, "rt0" },
           expiresAt : { NoExpiry, 0, 2 * REFRESH_MARGIN_MS, 4 * REFRESH_MARGIN_MS } ]

\* What the token endpoint can answer (claude-credentials.ts:61-84): the request
\* fails, the status is not ok, the body is no JSON, or the body holds the new
\* tokens, of which the access token and the refresh token may be missing
NoData == [ access_token |-> Absent, refresh_token |-> Absent, expires_in |-> 0 ]
Responses ==
    [ kind : { "fetch throws", "not ok", "json throws" }, data : { NoData } ]
    \cup [ kind : { "ok" },
           data : [ access_token : { Absent, "at1" }, refresh_token : { Absent, "rt1" },
                    expires_in : { 600 } ] ]

TokenCallIds == 1..MaxTokenCalls

\* a call of getClaudeOAuthToken: where it stands, the credentials it read, how its
\* refresh ended ("none" when it made none) and how the call ended
IdleTokenCall == [ pc |-> "idle", creds |-> NoFile, refresh |-> "none",
                   outcome |-> "none", result |-> Null ]

\* ------------------------------------------------------------- JIDs

\* A JID is a sequence of pieces; a Lark JID is the prefix "lark:" and the chat id.
LarkJid(chatId) == << "lark:", chatId >>

ownsJid(jid) == Len(jid) > 0 /\ jid[1] = "lark:"

\* jid.replace(/^lark:/, '')
StripLarkPrefix(jid) == IF Len(jid) > 0 /\ jid[1] = "lark:" THEN Tail(jid) ELSE jid

\* the WhatsApp ownership patterns (part_000:16-24): jid.endsWith('@g.us') or
\* jid.endsWith('@s.whatsapp.net')
WhatsAppOwnsJid(jid) == Len(jid) > 0 /\ jid[Len(jid)] \in { "@g.us", "@s.whatsapp.net" }

\* the registered channels and the ownsJid of each
Channels == { "lark", "whatsapp" }
Owns(channel, jid) == IF channel = "lark" THEN ownsJid(jid) ELSE WhatsAppOwnsJid(jid)

\* JID strings: up to MaxJidLen pieces, concatenated
JidElements == { "lark:", "oc_1", "12345", "@g.us", "@s.whatsapp.net" }
JidStrings == UNION { [ 1..n -> JidElements ] : n \in 0..MaxJidLen }

\* ------------------------------------------------------------------ state

VARIABLES
    connected,       \* LarkChannel.connected (lark.ts:205)
    outgoingQueue,   \* LarkChannel.outgoingQueue (lark.ts:206): items {jid, text}
    flushing,        \* LarkChannel.flushing (lark.ts:207)
    botOpenId,       \* LarkChannel.botOpenId (lark.ts:204), "undefined" when unset
    server,          \* LarkChannel.server (lark.ts:203): 0 when undefined, else the
                     \* number of the connect() call that created it
    dedupTimer,      \* LarkChannel.dedupTimer (lark.ts:209): TRUE while the interval runs
    seenMessages,    \* LarkChannel.seenMessages (lark.ts:208): message id -> first seen
    listening,       \* the http servers bound to the webhook port
    platformUp,      \* whether the Lark API accepts a request that settles now
    sm,              \* the sendMessage calls: position and arguments of each
    cn,              \* the connect() calls: position of each
    delivered,       \* the requests the platform accepted, in the order it accepted them
    now,             \* Date.now(), in ms
    nextSweep,       \* when the dedup interval fires next
    registered,      \* the keys of the mapping registeredGroups() returns
    onMessageLog,    \* for each message id, the times of its onMessage emissions
    lastIn,          \* the last inbound event and what its handling emitted
    routing,         \* a JID and the channels whose ownsJid accepted it
    splitCall,       \* a call of splitMarkdown: its arguments and what it returned
    postCall,        \* a call of markdownToPostContent: its argument and result
    credentialsFile, \* what ~/.claude/.credentials.json holds
    tokenCall        \* the calls of getClaudeOAuthToken

lifeVars == << connected, botOpenId, server, dedupTimer, listening >>
outVars == << outgoingQueue, flushing, platformUp, sm, cn, delivered >>
pureVars == << routing, splitCall, postCall, credentialsFile, tokenCall >>
inVars == << seenMessages, now, nextSweep, registered, onMessageLog, lastIn, pureVars >>
vars == << lifeVars, outVars, inVars >>

SendIds == 1..MaxSends
ConnIds == 1..MaxConnects

BOT_OPEN_ID == "ou_BOT"

\* ---------------------------------------------------------- outgoing values

Jids == { LarkJid("oc_1") }
ShortText == << "a" >>
\* one element longer than the limit: splits into two chunks
LongText == [ n \in 1..(MAX_TEXT_LENGTH + 1) |-> "a" ]
Texts == { ShortText, LongText }
ReplyIds == { "none", "om_X" }
MentionUsers == { NoUser, User1 }

NoReq == [ call |-> 0, prim |-> "none", msg_type |-> "none", text |-> << >>,
           replyTo |-> "none", chat |-> << >>, part |-> 0, via |-> "none", by |-> 0 ]
\* the field call records which sendMessage call an item came from; the program's
\* item holds jid and text only
NoItem == [ jid |-> << >>, text |-> << >>, call |-> 0 ]

IdleSend == [ pc |-> "idle", jid |-> << >>, text |-> << >>, reply |-> "none",
              mention |-> NoUser, i |-> 0, req |-> NoReq, outcome |-> "none",
              nRich |-> 0, nFallback |-> 0, startedConnected |-> FALSE ]
IdleConn == [ pc |-> "idle", item |-> NoItem, i |-> 0, req |-> NoReq,
              queueAtFlush |-> << >>, flushedCalls |-> << >> ]

Chunks(text) == splitMarkdown(text, MAX_TEXT_LENGTH)

\* every chunk is sent as a reply when replyToMessageId is set
PostRequest_ReplyEveryChunk(call, jid, text, reply, mention, i, via) ==
    LET chunkText == IF i = 1 /\ mention # NoUser
                     THEN AtMarkup(mention) \o Chunks(text)[i]
                     ELSE Chunks(text)[i]
        asReply == reply # "none"
    IN  [ call |-> call,
          prim |-> IF asReply THEN "reply" ELSE "create",
          msg_type |-> "post",
          text |-> chunkText,
          replyTo |-> IF asReply THEN reply ELSE "none",
          chat |-> IF asReply THEN << >> ELSE StripLarkPrefix(jid),
          part |-> i,
          via |-> via,
          by |-> 0 ]

\* the mention markup is prepended to every chunk
PostRequest_MentionEveryChunk(call, jid, text, reply, mention, i, via) ==
    LET chunkText == IF mention # NoUser
                     THEN AtMarkup(mention) \o Chunks(text)[i]
                     ELSE Chunks(text)[i]
        asReply == i = 1 /\ reply # "none"
    IN  [ call |-> call,
          prim |-> IF asReply THEN "reply" ELSE "create",
          msg_type |-> "post",
          text |-> chunkText,
          replyTo |-> IF asReply THEN reply ELSE "none",
          chat |-> IF asReply THEN << >> ELSE StripLarkPrefix(jid),
          part |-> i,
          via |-> via,
          by |-> 0 ]

\* The request _sendDirect issues for chunk i (1-based; the code's i === 0 is 1 here)
\* (lark.ts:494-514).  The post content is markdownToPostContent(chunkText); the
\* request records chunkText, the text it is rendered from.  The fields call, part,
\* via and by are not sent: they record, for the properties, the sendMessage call
\* the text came from, the chunk (0: the whole text), the path that issued the
\* request and, for a flush, the connect() call running it.
PostRequest(call, jid, text, reply, mention, i, via) ==
    LET chunkText == IF i = 1 /\ mention # NoUser
                     THEN AtMarkup(mention) \o Chunks(text)[i]
                     ELSE Chunks(text)[i]
        asReply == i = 1 /\ reply # "none"
    IN  [ call |-> call,
          prim |-> IF asReply THEN "reply" ELSE "create",
          msg_type |-> "post",
          text |-> chunkText,
          replyTo |-> IF asReply THEN reply ELSE "none",
          chat |-> IF asReply THEN << >> ELSE StripLarkPrefix(jid),
          part |-> i,
          via |-> via,
          by |-> 0 ]

\* the fallback always uses message.create, also when replyToMessageId is set
TextRequest_AlwaysCreate(call, jid, text, reply, mention) ==
    LET fallbackText == IF mention # NoUser THEN AtMarkup(mention) \o text ELSE text
    IN  [ call |-> call,
          prim |-> "create",
          msg_type |-> "text",
          text |-> fallbackText,
          replyTo |-> "none",
          chat |-> StripLarkPrefix(jid),
          part |-> 0,
          via |-> "fallback",
          by |-> 0 ]

\* The plain-text request of the fallback (lark.ts:446-467); part 0 is the whole text
TextRequest(call, jid, text, reply, mention) ==
    LET fallbackText == IF mention # NoUser THEN AtMarkup(mention) \o text ELSE text
    IN  [ call |-> call,
          prim |-> IF reply # "none" THEN "reply" ELSE "create",
          msg_type |-> "text",
          text |-> fallbackText,
          replyTo |-> reply,
          chat |-> IF reply # "none" THEN << >> ELSE StripLarkPrefix(jid),
          part |-> 0,
          via |-> "fallback",
          by |-> 0 ]

\* ------------------------------------------------------------ sendMessage

\* lark.ts:431-438: disconnected, so the item is queued and the call returns
QueueWhileDisconnected(k, jid, text, reply, mention) ==
    /\ outgoingQueue' = Append(outgoingQueue, [ jid |-> jid, text |-> text, call |-> k ])
    /\ sm' = [ sm EXCEPT ![k] = [ IdleSend EXCEPT
                 !.pc = "done", !.jid = jid, !.text = text, !.outcome = "resolved" ] ]

\* lark.ts:440-441, 491-514: connected, so _sendDirect splits the text and issues
\* the request of the first chunk
StartDirect(k, jid, text, reply, mention) ==
    /\ sm' = [ sm EXCEPT ![k] = [ IdleSend EXCEPT
                 !.pc = "rich", !.jid = jid, !.text = text, !.reply = reply,
                 !.mention = mention, !.i = 1, !.nRich = 1, !.startedConnected = TRUE,
                 !.req = PostRequest(k, jid, text, reply, mention, 1, "rich") ] ]
    /\ UNCHANGED outgoingQueue

\* sendMessage without the connected check
SendMessage_IgnoresConnected(k, jid, text, reply, mention) ==
    /\ sm[k].pc = "idle"
    /\ \A j \in 1..(k - 1) : sm[j].pc # "idle"
    /\ StartDirect(k, jid, text, reply, mention)
    /\ UNCHANGED << lifeVars, inVars, flushing, platformUp, cn, delivered >>

\* sendMessage(jid, text, opts) up to its first await (lark.ts:430-441).  Calls are
\* numbered in the order they are made.  A call that has returned keeps jid and
\* text for the properties; its other locals are dead and reset.
SendMessage(k, jid, text, reply, mention) ==
    /\ sm[k].pc = "idle"
    /\ \A j \in 1..(k - 1) : sm[j].pc # "idle"
    /\ IF ~connected
       THEN QueueWhileDisconnected(k, jid, text, reply, mention)
       ELSE StartDirect(k, jid, text, reply, mention)
    /\ UNCHANGED << lifeVars, inVars, flushing, platformUp, cn, delivered >>

\* lark.ts:442-468: the rich send threw; the catch block issues the one plain-text
\* request
RichFailed(k) ==
    /\ sm' = [ sm EXCEPT ![k].pc = "fallback",
                         ![k].nFallback = @ + 1,
                         ![k].req = TextRequest(k, sm[k].jid, sm[k].text,
                                                sm[k].reply, sm[k].mention) ]
    /\ UNCHANGED << outgoingQueue, delivered >>

\* lark.ts:494-516: the request of chunk i was accepted; the loop issues the next
\* chunk, or _sendDirect returns and sendMessage resolves
RichAccepted(k) ==
    /\ delivered' = Append(delivered, sm[k].req)
    /\ IF sm[k].i < Len(Chunks(sm[k].text))
       THEN sm' = [ sm EXCEPT ![k].i = @ + 1,
                              ![k].nRich = @ + 1,
                              ![k].req = PostRequest(k, sm[k].jid, sm[k].text, sm[k].reply,
                                                     sm[k].mention, sm[k].i + 1, "rich") ]
       ELSE sm' = [ sm EXCEPT ![k].pc = "done", ![k].req = NoReq, ![k].i = 0,
                         ![k].reply = "none", ![k].mention = NoUser,
                              ![k].outcome = "resolved" ]
    /\ UNCHANGED outgoingQueue

\* the awaited request of _sendDirect settles (lark.ts:505-513)
SendRichDone(k) ==
    /\ sm[k].pc = "rich"
    /\ IF platformUp THEN RichAccepted(k) ELSE RichFailed(k)
    /\ UNCHANGED << lifeVars, inVars, flushing, platformUp, cn >>

\* the fallback's error leaves sendMessage instead of being caught
FallbackFailed_Rethrows(k) ==
    /\ sm' = [ sm EXCEPT ![k].pc = "done", ![k].req = NoReq, ![k].outcome = "rejected" ]
    /\ UNCHANGED << outgoingQueue, delivered >>

\* the item is queued with the mention-prefixed text of the fallback
FallbackFailed_QueuesPrefixed(k) ==
    /\ outgoingQueue' = Append(outgoingQueue,
                               [ jid |-> sm[k].jid, text |-> sm[k].req.text, call |-> k ])
    /\ sm' = [ sm EXCEPT ![k].pc = "done", ![k].req = NoReq, ![k].i = 0,
                         ![k].reply = "none", ![k].mention = NoUser,
                         ![k].outcome = "resolved" ]
    /\ UNCHANGED delivered

\* lark.ts:469-475: the fallback threw too; the item is queued with the original
\* arguments and the call returns
FallbackFailed(k) ==
    /\ outgoingQueue' = Append(outgoingQueue,
                               [ jid |-> sm[k].jid, text |-> sm[k].text, call |-> k ])
    /\ sm' = [ sm EXCEPT ![k].pc = "done", ![k].req = NoReq, ![k].i = 0,
                         ![k].reply = "none", ![k].mention = NoUser, ![k].outcome = "resolved" ]
    /\ UNCHANGED delivered

\* lark.ts:468: the fallback was accepted
FallbackAccepted(k) ==
    /\ delivered' = Append(delivered, sm[k].req)
    /\ sm' = [ sm EXCEPT ![k].pc = "done", ![k].req = NoReq, ![k].i = 0,
                         ![k].reply = "none", ![k].mention = NoUser, ![k].outcome = "resolved" ]
    /\ UNCHANGED outgoingQueue

\* the awaited request of the fallback settles (lark.ts:449-475)
SendFallbackDone(k) ==
    /\ sm[k].pc = "fallback"
    /\ IF platformUp THEN FallbackAccepted(k) ELSE FallbackFailed(k)
    /\ UNCHANGED << lifeVars, inVars, flushing, platformUp, cn >>

\* the Lark API goes down or comes back
PlatformToggle ==
    /\ platformUp' = ~platformUp
    /\ UNCHANGED << lifeVars, inVars, outgoingQueue, flushing, sm, cn, delivered >>

\* ---------------------------------------------------- connect and the flush

\* connect() up to its first await (lark.ts:247-312): the server is created and
\* listen() binds the port, which fails when another server holds it
ConnectStart(c) ==
    /\ cn[c].pc = "idle"
    /\ \A j \in 1..(c - 1) : cn[j].pc # "idle"
    /\ server' = c
    /\ IF listening = {}
       THEN /\ listening' = {c}
            /\ cn' = [ cn EXCEPT ![c].pc = "listen" ]
       ELSE /\ listening' = listening
            /\ cn' = [ cn EXCEPT ![c].pc = "listen_error" ]
    /\ UNCHANGED << connected, botOpenId, dedupTimer, inVars,
                    outgoingQueue, flushing, platformUp, sm, delivered >>

\* lark.ts:305-322: the listen callback resolves and the bot-info request is issued;
\* a server closed before its listening event never emits it
ListenDone(c) ==
    /\ cn[c].pc = "listen"
    /\ c \in listening
    /\ cn' = [ cn EXCEPT ![c].pc = "botinfo" ]
    /\ UNCHANGED << lifeVars, inVars, outgoingQueue, flushing, platformUp, sm, delivered >>

\* lark.ts:294-304: the server's error event rejects connect()
ListenError(c) ==
    /\ cn[c].pc = "listen_error"
    /\ cn' = [ cn EXCEPT ![c].pc = "failed" ]
    /\ UNCHANGED << lifeVars, inVars, outgoingQueue, flushing, platformUp, sm, delivered >>

\* the flush takes the item queued last
FlushTake_Lifo(c, atCall) ==
    LET item == outgoingQueue[Len(outgoingQueue)]
    IN  /\ outgoingQueue' = SubSeq(outgoingQueue, 1, Len(outgoingQueue) - 1)
        /\ cn' = [ cn EXCEPT ![c].pc = "flush",
                             ![c].item = item,
                             ![c].i = 1,
                             ![c].queueAtFlush = atCall,
                             ![c].flushedCalls = Append(@, item.call),
                             ![c].req = [ PostRequest(item.call, item.jid, item.text,
                                                      "none", NoUser, 1, "flush")
                                          EXCEPT !.by = c ] ]

\* lark.ts:609-610: shift the head of the queue and start _sendDirect(item.jid,
\* item.text), which issues the request of the item's first chunk.  queueAtFlush
\* and flushedCalls record, for the properties, the queue flushOutgoingQueue found
\* when it was called and the calls whose items it took
FlushTake(c, atCall) ==
    LET item == Head(outgoingQueue)
    IN  /\ outgoingQueue' = Tail(outgoingQueue)
        /\ cn' = [ cn EXCEPT ![c].pc = "flush",
                             ![c].item = item,
                             ![c].i = 1,
                             ![c].queueAtFlush = atCall,
                             ![c].flushedCalls = Append(@, item.call),
                             ![c].req = [ PostRequest(item.call, item.jid, item.text,
                                                      "none", NoUser, 1, "flush")
                                          EXCEPT !.by = c ] ]

\* lark.ts:612-614, 337: the flush returns and connect() goes on to syncChatMetadata
FlushReturn(c, atCall) ==
    cn' = [ cn EXCEPT ![c].pc = "sync", ![c].item = NoItem, ![c].i = 0, ![c].req = NoReq,
                      ![c].queueAtFlush = atCall ]

\* flushOutgoingQueue without the flushing test of lark.ts:601
flushOutgoingQueue_NoGuard(c) ==
    IF Len(outgoingQueue) = 0
    THEN /\ FlushReturn(c, outgoingQueue)
         /\ UNCHANGED << flushing, outgoingQueue >>
    ELSE /\ flushing' = TRUE
         /\ FlushTake(c, outgoingQueue)

\* flushOutgoingQueue up to its first await (lark.ts:600-610)
flushOutgoingQueue(c) ==
    IF flushing \/ Len(outgoingQueue) = 0
    THEN /\ FlushReturn(c, outgoingQueue)
         /\ UNCHANGED << flushing, outgoingQueue >>
    ELSE /\ flushing' = TRUE
         /\ FlushTake(c, outgoingQueue)

\* connect() without the try/catch of lark.ts:316-329: a failed lookup rejects it
BotInfoDone_LookupFailureRejects(c, open_id) ==
    /\ cn[c].pc = "botinfo"
    /\ IF open_id = "throw"
       THEN /\ cn' = [ cn EXCEPT ![c].pc = "failed" ]
            /\ UNCHANGED << botOpenId, connected, flushing, outgoingQueue >>
       ELSE /\ botOpenId' = open_id
            /\ connected' = TRUE
            /\ flushOutgoingQueue(c)
    /\ UNCHANGED << server, dedupTimer, listening, inVars, platformUp, sm, delivered >>

\* connect() starts the flush without setting connected (lark.ts:331)
BotInfoDone_FlushBeforeConnected(c, open_id) ==
    /\ cn[c].pc = "botinfo"
    /\ botOpenId' = IF open_id = "throw" THEN botOpenId ELSE open_id
    /\ flushOutgoingQueue(c)
    /\ UNCHANGED << connected, server, dedupTimer, listening, inVars, platformUp, sm,
                    delivered >>

\* lark.ts:316-337: the bot-info request settles (open_id is the id it returned,
\* "undefined" when the answer holds none, "throw" when it failed), connected is
\* set and the flush starts
BotInfoDone(c, open_id) ==
    /\ cn[c].pc = "botinfo"
    /\ botOpenId' = IF open_id = "throw" THEN botOpenId ELSE open_id
    /\ connected' = TRUE
    /\ flushOutgoingQueue(c)
    /\ UNCHANGED << server, dedupTimer, listening, inVars, platformUp, sm, delivered >>

\* lark.ts:608-614 after an accepted request: the next chunk of the item, the next
\* item of the queue, or the end of the loop
FlushAccepted(c) ==
    /\ delivered' = Append(delivered, cn[c].req)
    /\ IF cn[c].i < Len(Chunks(cn[c].item.text))
       THEN /\ cn' = [ cn EXCEPT ![c].i = @ + 1,
                                 ![c].req = [ PostRequest(cn[c].item.call, cn[c].item.jid,
                                                          cn[c].item.text, "none", NoUser,
                                                          cn[c].i + 1, "flush")
                                              EXCEPT !.by = c ] ]
            /\ UNCHANGED << outgoingQueue, flushing >>
       ELSE IF Len(outgoingQueue) > 0
       THEN /\ FlushTake(c, cn[c].queueAtFlush)
            /\ UNCHANGED flushing
       ELSE /\ FlushReturn(c, cn[c].queueAtFlush)
            /\ flushing' = FALSE
            /\ UNCHANGED outgoingQueue

\* the flush without its finally block (lark.ts:612-614)
FlushFailed_KeepsFlushing(c) ==
    /\ cn' = [ cn EXCEPT ![c].pc = "failed", ![c].item = NoItem, ![c].i = 0,
                         ![c].req = NoReq ]
    /\ UNCHANGED << flushing, outgoingQueue, delivered >>

\* lark.ts:610-614, 334: _sendDirect threw; finally resets flushing and the error
\* leaves flushOutgoingQueue and connect()
FlushFailed(c) ==
    /\ cn' = [ cn EXCEPT ![c].pc = "failed", ![c].item = NoItem, ![c].i = 0,
                         ![c].req = NoReq ]
    /\ flushing' = FALSE
    /\ UNCHANGED << outgoingQueue, delivered >>

\* the awaited request of the flush's _sendDirect settles
FlushSendDone(c) ==
    /\ cn[c].pc = "flush"
    /\ IF platformUp THEN FlushAccepted(c) ELSE FlushFailed(c)
    /\ UNCHANGED << lifeVars, inVars, platformUp, sm >>

\* syncChatMetadata settles (lark.ts:560-589, its errors are caught) and connect()
\* resolves
SyncDone(c) ==
    /\ cn[c].pc = "sync"
    /\ cn' = [ cn EXCEPT ![c].pc = "done" ]
    /\ UNCHANGED << lifeVars, inVars, outgoingQueue, flushing, platformUp, sm, delivered >>

\* disconnect() without the clearInterval of lark.ts:529-532
Disconnect_KeepsTimer ==
    /\ connected' = FALSE
    /\ server' = 0
    /\ listening' = IF server # 0 THEN listening \ {server} ELSE listening
    /\ UNCHANGED << dedupTimer, botOpenId, inVars, outVars >>

\* disconnect() (lark.ts:527-538); it has no await
Disconnect ==
    /\ connected' = FALSE
    /\ dedupTimer' = FALSE
    /\ server' = 0
    /\ listening' = IF server # 0 THEN listening \ {server} ELSE listening
    /\ UNCHANGED << botOpenId, inVars, outVars >>

\* ------------------------------------------------------------ inbound path

\* ASSISTANT_NAME and TRIGGER_PATTERN come from config.js; lark.test.ts:6-9 sets
\* them to 'Jonesy' and /^@Jonesy\b/i.  A text is a sequence of words, and the
\* pattern matches a text whose first word is the name, in any case
ASSISTANT_NAME == "Jonesy"
\* `@${ASSISTANT_NAME}`
Trigger == "@Jonesy"

\* Inbound text is a sequence of elements that stand for substrings and are
\* concatenated without separator: a space is the element " ", and the placeholder
\* @_user_10 is the placeholder @_user_1 followed by "0".  WordElements are the
\* elements that begin with a word character.
WordElements == { "hi", "0" }

\* TRIGGER_PATTERN.test(content) with /^@Jonesy\b/i (lark.test.ts:6-9): the trigger
\* at the start, in any case, followed by a word boundary
TriggerMatches(content) ==
    /\ Len(content) > 0
    /\ content[1] \in { "@Jonesy", "@jonesy" }
    /\ Len(content) = 1 \/ content[2] \notin WordElements

\* message ids are numbered; 0 stands for an event without message_id
NotSeen == -1
MsgIds == 1..MaxMsgIds

\* content.indexOf(key), 1-based; 0 when key does not occur
IndexOf(content, key) ==
    LET P == { p \in 1..(Len(content) - Len(key) + 1) :
                 SubSeq(content, p, p + Len(key) - 1) = key }
    IN  IF P = {} THEN 0 ELSE CHOOSE p \in P : \A q \in P : p <= q

\* content.replace(key, with) for a string key: the first occurrence only
ReplaceFirst(content, key, with) ==
    LET p == IndexOf(content, key)
    IN  IF p = 0 THEN content
        ELSE SubSeq(content, 1, p - 1) \o << with >>
             \o SubSeq(content, p + Len(key), Len(content))

\* the loop replaces the key of every mention, whoever it refers to
RECURSIVE ReplaceMentions_AnyIdentity(_, _, _)
ReplaceMentions_AnyIdentity(content, mentions, bot) ==
    IF Len(mentions) = 0 THEN content
    ELSE LET mention == Head(mentions)
             next == IF Len(mention.key) > 0
                     THEN ReplaceFirst(content, mention.key, Trigger)
                     ELSE content
         IN  ReplaceMentions_AnyIdentity(next, Tail(mentions), bot)

\* lark.ts:402-408: the loop over message.mentions
RECURSIVE ReplaceMentions(_, _, _)
ReplaceMentions(content, mentions, bot) ==
    IF Len(mentions) = 0 THEN content
    ELSE LET mention == Head(mentions)
             next == IF mention.open_id = bot /\ Len(mention.key) > 0
                     THEN ReplaceFirst(content, mention.key, Trigger)
                     ELSE content
         IN  ReplaceMentions(next, Tail(mentions), bot)

\* the trigger is prepended whenever a mention was replaced, without the test of
\* the trigger pattern
NormalizeContent_AlwaysPrepends(textContent, mentions, sender, bot) ==
    LET isBotMessage == bot # "undefined" /\ sender = bot
        replaced == IF bot # "undefined"
                    THEN ReplaceMentions(textContent, mentions, bot)
                    ELSE textContent
    IN  IF isBotMessage THEN textContent
        ELSE IF replaced # textContent
        THEN << Trigger, " " >> \o replaced
        ELSE replaced

\* lark.ts:395-416: the content of the emitted message
NormalizeContent(textContent, mentions, sender, bot) ==
    LET isBotMessage == bot # "undefined" /\ sender = bot
        replaced == IF bot # "undefined"
                    THEN ReplaceMentions(textContent, mentions, bot)
                    ELSE textContent
    IN  IF isBotMessage THEN textContent
        ELSE IF replaced # textContent /\ ~TriggerMatches(replaced)
        THEN << Trigger, " " >> \o replaced
        ELSE replaced

\* new Date(ms).toISOString() (lark.ts:369-371) throws a RangeError when ms lies
\* beyond the greatest time value of a Date, 8.64e15 in ECMAScript; the model
\* scales the limit to its integers
MAX_DATE_MS == 2000000000

\* the handler without the registered-group check
Outcome_IgnoresRegistration(ev) ==
    IF ~ev.hasMessage THEN "no message"
    ELSE IF ev.message_id # 0 /\ seenMessages[ev.message_id] # NotSeen THEN "duplicate"
    ELSE IF ev.message_type # "text" THEN "not text"
    ELSE IF ~ev.content.parses THEN "unparseable"
    ELSE IF Len(ev.content.text) = 0 THEN "empty text"
    ELSE IF ev.chat_id = "" THEN "no chat id"
    ELSE IF ev.create_time > MAX_DATE_MS THEN "throws"
    ELSE "delivered"

\* what handleIncomingMessage does with an event (lark.ts:340-379): the check at
\* which it returns, "throws" when the timestamp cannot be formatted, or "delivered"
Outcome(ev) ==
    IF ~ev.hasMessage THEN "no message"
    ELSE IF ev.message_id # 0 /\ seenMessages[ev.message_id] # NotSeen THEN "duplicate"
    ELSE IF ev.message_type # "text" THEN "not text"
    ELSE IF ~ev.content.parses THEN "unparseable"
    ELSE IF Len(ev.content.text) = 0 THEN "empty text"
    ELSE IF ev.chat_id = "" THEN "no chat id"
    ELSE IF ev.create_time > MAX_DATE_MS THEN "throws"
    ELSE IF LarkJid(ev.chat_id) \notin registered THEN "unregistered"
    ELSE "delivered"

\* lark.ts:375: the arguments of onChatMetadata
ChatMetadata(ev) ==
    [ jid |-> LarkJid(ev.chat_id),
      timestamp |-> IF ev.create_time # 0 THEN ev.create_time ELSE now,
      channel |-> "lark",
      isGroup |-> ev.chat_type # "p2p" ]

\* the self check compares the two ids without requiring that the bot id is known:
\* a missing sender id equals a missing bot id
Message_SelfCheckUnguarded(ev) ==
    LET isBotMessage == \/ botOpenId # "undefined" /\ ev.sender = botOpenId
                        \/ botOpenId = "undefined" /\ ev.sender = ""
    IN  [ id |-> IF ev.message_id # 0 THEN << "message_id", ev.message_id >>
                 ELSE IF ev.create_time # 0 THEN << "create_time", ev.create_time >>
                 ELSE << >>,
          chat_jid |-> LarkJid(ev.chat_id),
          sender |-> ev.sender,
          sender_name |-> IF isBotMessage THEN ASSISTANT_NAME
                          ELSE IF ev.sender # "" THEN ev.sender ELSE "unknown",
          content |-> NormalizeContent(ev.content.text, ev.mentions, ev.sender, botOpenId),
          timestamp |-> IF ev.create_time # 0 THEN ev.create_time ELSE now,
          is_from_me |-> isBotMessage,
          is_bot_message |-> isBotMessage ]

\* lark.ts:381-427: the message handed to onMessage
Message(ev) ==
    LET isBotMessage == botOpenId # "undefined" /\ ev.sender = botOpenId
    IN  [ id |-> IF ev.message_id # 0 THEN << "message_id", ev.message_id >>
                 ELSE IF ev.create_time # 0 THEN << "create_time", ev.create_time >>
                 ELSE << >>,
          chat_jid |-> LarkJid(ev.chat_id),
          sender |-> ev.sender,
          sender_name |-> IF isBotMessage THEN ASSISTANT_NAME
                          ELSE IF ev.sender # "" THEN ev.sender ELSE "unknown",
          content |-> NormalizeContent(ev.content.text, ev.mentions, ev.sender, botOpenId),
          timestamp |-> IF ev.create_time # 0 THEN ev.create_time ELSE now,
          is_from_me |-> isBotMessage,
          is_bot_message |-> isBotMessage ]

\* the id is recorded after the checks, for a delivered message only
RecordSeen_AfterChecks(ev) ==
    IF Outcome(ev) = "delivered" /\ ev.message_id # 0
    THEN [ seenMessages EXCEPT ![ev.message_id] = now ]
    ELSE seenMessages

\* lark.ts:347-348: the id is recorded unless the event is dropped before
RecordSeen(ev) ==
    IF ev.hasMessage /\ ev.message_id # 0 /\ seenMessages[ev.message_id] = NotSeen
    THEN [ seenMessages EXCEPT ![ev.message_id] = now ]
    ELSE seenMessages

\* the metadata is emitted for registered chats only
HandleIncomingMessage_MetadataIfRegistered(ev) ==
    LET outcome == Outcome(ev)
        hasMeta == outcome = "delivered"
    IN  /\ listening # {}
        /\ seenMessages' = RecordSeen(ev)
        /\ lastIn' = [ kind |-> "event", ev |-> ev, outcome |-> outcome,
                       meta |-> IF hasMeta THEN << ChatMetadata(ev) >> ELSE << >>,
                       msg |-> IF outcome = "delivered" THEN << Message(ev) >> ELSE << >> ]
        /\ onMessageLog' = IF outcome = "delivered" /\ ev.message_id # 0
                           THEN [ onMessageLog EXCEPT ![ev.message_id] = Append(@, now) ]
                           ELSE onMessageLog
        /\ UNCHANGED << lifeVars, outVars, pureVars, now, nextSweep, registered >>

\* the metadata is emitted as soon as the chat id is known, whatever the type and
\* the content
HandleIncomingMessage_MetadataForAnyType(ev) ==
    LET outcome == Outcome(ev)
        hasMeta == outcome \in { "not text", "unparseable", "empty text",
                                  "unregistered", "delivered" } /\ ev.chat_id # ""
    IN  /\ listening # {}
        /\ seenMessages' = RecordSeen(ev)
        /\ lastIn' = [ kind |-> "event", ev |-> ev, outcome |-> outcome,
                       meta |-> IF hasMeta THEN << ChatMetadata(ev) >> ELSE << >>,
                       msg |-> IF outcome = "delivered" THEN << Message(ev) >> ELSE << >> ]
        /\ onMessageLog' = IF outcome = "delivered" /\ ev.message_id # 0
                           THEN [ onMessageLog EXCEPT ![ev.message_id] = Append(@, now) ]
                           ELSE onMessageLog
        /\ UNCHANGED << lifeVars, outVars, pureVars, now, nextSweep, registered >>

\* handleIncomingMessage(data) (lark.ts:340-428); it has no await.  The webhook
\* delivers an event while a server of the channel is bound to the port
HandleIncomingMessage(ev) ==
    LET outcome == Outcome(ev)
        hasMeta == outcome \in { "unregistered", "delivered" }
    IN  /\ listening # {}
        /\ seenMessages' = RecordSeen(ev)
        /\ lastIn' = [ kind |-> "event", ev |-> ev, outcome |-> outcome,
                       meta |-> IF hasMeta THEN << ChatMetadata(ev) >> ELSE << >>,
                       msg |-> IF outcome = "delivered" THEN << Message(ev) >> ELSE << >> ]
        /\ onMessageLog' = IF outcome = "delivered" /\ ev.message_id # 0
                           THEN [ onMessageLog EXCEPT ![ev.message_id] = Append(@, now) ]
                           ELSE onMessageLog
        /\ UNCHANGED << lifeVars, outVars, pureVars, now, nextSweep, registered >>

\* 10 * 60 * 1000 and 5 * 60 * 1000 (lark.ts:19-20)
DEDUP_TTL_MS == 10 * 60 * 1000
DEDUP_CLEANUP_INTERVAL_MS == 5 * 60 * 1000

\* the sweep deletes every entry, whatever its age
cleanupDedup_ClearsAll ==
    /\ dedupTimer
    /\ now >= nextSweep
    /\ nextSweep' = nextSweep + DEDUP_CLEANUP_INTERVAL_MS
    /\ seenMessages' = [ id \in MsgIds |-> NotSeen ]
    /\ UNCHANGED << lifeVars, outVars, pureVars, now, registered, onMessageLog, lastIn >>

\* the sweep with >= for the > of lark.ts:594
cleanupDedup_AtTtl ==
    /\ dedupTimer
    /\ now >= nextSweep
    /\ nextSweep' = nextSweep + DEDUP_CLEANUP_INTERVAL_MS
    /\ seenMessages' = [ id \in MsgIds |->
                           IF seenMessages[id] # NotSeen /\ now - seenMessages[id] >= DEDUP_TTL_MS
                           THEN NotSeen ELSE seenMessages[id] ]
    /\ UNCHANGED << lifeVars, outVars, pureVars, now, registered, onMessageLog, lastIn >>

\* cleanupDedup() (lark.ts:591-598), run by the interval the constructor starts
\* (lark.ts:244) until disconnect() clears it
cleanupDedup ==
    /\ dedupTimer
    /\ now >= nextSweep
    /\ nextSweep' = nextSweep + DEDUP_CLEANUP_INTERVAL_MS
    /\ seenMessages' = [ id \in MsgIds |->
                           IF seenMessages[id] # NotSeen /\ now - seenMessages[id] > DEDUP_TTL_MS
                           THEN NotSeen ELSE seenMessages[id] ]
    /\ UNCHANGED << lifeVars, outVars, pureVars, now, registered, onMessageLog, lastIn >>

\* the clock advances by one tick; a due sweep runs first
TickMs == 300 * 1000
Tick ==
    /\ now + TickMs <= MaxTicks * TickMs
    /\ ~(dedupTimer /\ now >= nextSweep)
    /\ now' = now + TickMs
    /\ UNCHANGED << lifeVars, outVars, pureVars, seenMessages, nextSweep, registered,
                    onMessageLog, lastIn >>

\* the registry collaborator registers or unregisters a chat
SetRegistered(jid) ==
    /\ registered' = IF jid \in registered THEN registered \ {jid}
                     ELSE registered \cup {jid}
    /\ UNCHANGED << lifeVars, outVars, pureVars, seenMessages, now, nextSweep, onMessageLog, lastIn >>

\* --------------------------------------------------- getClaudeOAuthToken

\* the refresh lets an error of fetch or of res.json() through
RefreshResult_NoCatch(refreshToken, response) ==
    IF response.kind \in { "fetch throws", "json throws" } THEN [ threw |-> TRUE, oauth |-> NoFile ]
    ELSE IF response.kind = "not ok" THEN [ threw |-> FALSE, oauth |-> NoFile ]
    ELSE [ threw |-> FALSE,
           oauth |-> [ present |-> TRUE,
                       accessToken |-> response.data.access_token,
                       refreshToken |-> IF response.data.refresh_token # Absent
                                        THEN response.data.refresh_token ELSE refreshToken,
                       expiresAt |-> now + response.data.expires_in * 1000 ] ]

\* refreshAccessToken(refreshToken) once the endpoint has answered
\* (claude-credentials.ts:57-100): oauth is what it returns, NoFile for null
RefreshResult(refreshToken, response) ==
    IF response.kind # "ok" THEN [ threw |-> FALSE, oauth |-> NoFile ]
    ELSE [ threw |-> FALSE,
           oauth |-> [ present |-> TRUE,
                       accessToken |-> response.data.access_token,
                       refreshToken |-> IF response.data.refresh_token # Absent
                                        THEN response.data.refresh_token ELSE refreshToken,
                       expiresAt |-> now + response.data.expires_in * 1000 ] ]

\* claude-credentials.ts:111-120: the call goes on to refreshAccessToken
NeedsFetch(creds) ==
    /\ creds.expiresAt # NoExpiry
    /\ creds.expiresAt - now < REFRESH_MARGIN_MS
    /\ creds.refreshToken # Absent

\* getClaudeOAuthToken() up to its first await (claude-credentials.ts:107-123)
GetClaudeOAuthToken(k) ==
    LET creds == credentialsFile
    IN  /\ tokenCall[k].pc = "idle"
        /\ \A j \in 1..(k - 1) : tokenCall[j].pc # "idle"
        /\ tokenCall' = [ tokenCall EXCEPT ![k] =
              IF ~creds.present \/ creds.accessToken = Absent
              THEN [ IdleTokenCall EXCEPT !.pc = "done", !.creds = creds,
                                          !.outcome = "resolved", !.result = Null ]
              ELSE IF NeedsFetch(creds)
              THEN [ IdleTokenCall EXCEPT !.pc = "fetch", !.creds = creds ]
              ELSE [ IdleTokenCall EXCEPT !.pc = "done", !.creds = creds,
                                          !.outcome = "resolved",
                                          !.result = creds.accessToken ] ]
        /\ UNCHANGED << lifeVars, outVars, seenMessages, now, nextSweep, registered,
                        onMessageLog, lastIn, routing, splitCall, postCall,
                        credentialsFile >>

\* The token endpoint answers call k: refreshAccessToken returns, writing the file
\* when it has new credentials (claude-credentials.ts:86-95; writes is false when
\* writeCredentialsFile fails, which it only logs, 42-55), and getClaudeOAuthToken
\* returns (claude-credentials.ts:123-124)
RefreshDone(k, response, writes) ==
    LET r == RefreshResult(tokenCall[k].creds.refreshToken, response)
    IN  /\ tokenCall[k].pc = "fetch"
        /\ credentialsFile' = IF r.oauth.present /\ writes THEN r.oauth ELSE credentialsFile
        /\ tokenCall' = [ tokenCall EXCEPT ![k] =
              [ @ EXCEPT !.pc = "done",
                         !.refresh = IF r.oauth.present THEN "refreshed" ELSE "failed",
                         !.outcome = IF r.threw THEN "rejected" ELSE "resolved",
                         !.result = IF r.threw THEN Null
                                    ELSE IF r.oauth.present /\ r.oauth.accessToken # Absent
                                    THEN r.oauth.accessToken
                                    ELSE tokenCall[k].creds.accessToken ] ]
        /\ UNCHANGED << lifeVars, outVars, seenMessages, now, nextSweep, registered,
                        onMessageLog, lastIn, routing, splitCall, postCall >>

\* ---------------------------------------------------------- specification

NoEvent == [ kind |-> "none", outcome |-> "none" ]
NoRouting == [ jid |-> << >>, asked |-> FALSE, owners |-> {} ]
NoSplit == [ text |-> << >>, maxLen |-> 0, returned |-> FALSE, chunks |-> << >>,
             separators |-> << >> ]
NoPost == [ text |-> << >>, returned |-> FALSE, content |-> << >> ]

\* the state after the constructor (lark.ts:205-209, 215-245)
InitChannel ==
    /\ connected = FALSE
    /\ outgoingQueue = << >>
    /\ flushing = FALSE
    /\ botOpenId = "undefined"
    /\ server = 0
    /\ dedupTimer = TRUE
    /\ seenMessages = [ id \in MsgIds |-> NotSeen ]
    /\ listening = {}
    /\ platformUp = TRUE
    /\ sm = [ k \in SendIds |-> IdleSend ]
    /\ cn = [ c \in ConnIds |-> IdleConn ]
    /\ delivered = << >>
    /\ now = 0
    /\ nextSweep = DEDUP_CLEANUP_INTERVAL_MS
    /\ registered = {}
    /\ onMessageLog = [ id \in MsgIds |-> << >> ]
    /\ lastIn = NoEvent

\* no pure function has been called
Init ==
    /\ InitChannel
    /\ routing = NoRouting
    /\ splitCall = NoSplit
    /\ postCall = NoPost
    /\ credentialsFile = NoFile
    /\ tokenCall = [ k \in TokenCallIds |-> IdleTokenCall ]

\* the outgoing side: callers of sendMessage, connect and disconnect, and the
\* platform settling the requests in flight
Next ==
    \/ \E k \in SendIds, jid \in Jids, text \in Texts, reply \in ReplyIds,
          mention \in MentionUsers : SendMessage(k, jid, text, reply, mention)
    \/ \E k \in SendIds : SendRichDone(k)
    \/ \E k \in SendIds : SendFallbackDone(k)
    \/ \E c \in ConnIds : ConnectStart(c)
    \/ \E c \in ConnIds : ListenDone(c)
    \/ \E c \in ConnIds : ListenError(c)
    \/ \E c \in ConnIds : BotInfoDone(c, BOT_OPEN_ID)
    \/ \E c \in ConnIds : FlushSendDone(c)
    \/ \E c \in ConnIds : SyncDone(c)
    \/ Disconnect
    \/ PlatformToggle

Spec == Init /\ [][Next]_vars

\* The inbound side: the webhook delivering events, the dedup interval, the
\* clock, the registry, and connect and disconnect around them.  No message is
\* sent, so the flush of every connect() finds the queue empty.
Event(message_id, message_type, chat_id, sender) ==
    [ hasMessage |-> TRUE, message_id |-> message_id, message_type |-> message_type,
      content |-> [ parses |-> TRUE, text |-> << "hi" >> ],
      chat_id |-> chat_id, chat_type |-> "group", create_time |-> 1700,
      sender |-> sender, mentions |-> << >> ]

EventsIn ==
    { Event(id, "text", "oc_1", "ou_U1") : id \in 0..MaxMsgIds }

NextIn ==
    \/ \E ev \in EventsIn : HandleIncomingMessage(ev)
    \/ cleanupDedup
    \/ Tick
    \/ SetRegistered(LarkJid("oc_1"))
    \/ \E c \in ConnIds : ConnectStart(c)
    \/ \E c \in ConnIds : ListenDone(c)
    \/ \E c \in ConnIds : ListenError(c)
    \/ \E c \in ConnIds, open_id \in { BOT_OPEN_ID, "throw" } : BotInfoDone(c, open_id)
    \/ \E c \in ConnIds : SyncDone(c)
    \/ Disconnect

SpecIn == Init /\ [][NextIn]_vars


\* The inbound side over the shapes an event can have: with and without message,
\* message_id, chat id and sender, of text and non-text type, with content that
\* parses, does not parse or holds an empty text, and with mentions of the bot and
\* of other users.  The clock stands still, so a recorded id stays recorded.
RawEvent(message_id, message_type, content, chat_id, sender, mentions) ==
    [ hasMessage |-> TRUE, message_id |-> message_id, message_type |-> message_type,
      content |-> content,
      chat_id |-> chat_id, chat_type |-> "group", create_time |-> 1700,
      sender |-> sender, mentions |-> mentions ]

\* an event without data.message
NoMessageEvent ==
    [ RawEvent(0, "text", [ parses |-> FALSE, text |-> << >> ], "", "", << >>)
        EXCEPT !.hasMessage = FALSE ]

K1 == << "@_user_1" >>
K2 == << "@_user_2" >>
K10 == << "@_user_1", "0" >>
BotMention(key) == [ key |-> key, open_id |-> BOT_OPEN_ID ]
OtherMention(key) == [ key |-> key, open_id |-> "ou_U2" ]

\* texts with the mentions they carry (lark.test.ts:408-495)
MentionCases ==
    { [ text |-> << "@_user_1", " ", "hi" >>, mentions |-> << BotMention(K1) >> ],
      [ text |-> << "hi", " ", "@_user_1" >>, mentions |-> << BotMention(K1) >> ],
      [ text |-> << "@Jonesy", " ", "@_user_1" >>, mentions |-> << BotMention(K1) >> ],
      [ text |-> << "@_user_1", " ", "@_user_1" >>, mentions |-> << BotMention(K1) >> ],
      [ text |-> << "@_user_2", " ", "hi" >>, mentions |-> << OtherMention(K2) >> ],
      [ text |-> << "@_user_2", " ", "@_user_1" >>,
        mentions |-> << OtherMention(K2), BotMention(K1) >> ],
      [ text |-> << "@_user_1", " ", "@_user_1", "0" >>,
        mentions |-> << BotMention(K1), OtherMention(K10) >> ],
      [ text |-> << "@_user_1", " ", "hi" >>, mentions |-> << BotMention(<< >>) >> ] }

Contents ==
    { [ parses |-> TRUE, text |-> << "hi" >> ],
      [ parses |-> TRUE, text |-> << >> ],
      [ parses |-> FALSE, text |-> << >> ] }

EventsEv ==
    { NoMessageEvent }
    \cup { RawEvent(id, type, content, chat_id, sender, << >>) :
             id \in 0..MaxMsgIds, type \in { "text", "image" }, content \in Contents,
             chat_id \in { "oc_1", "" }, sender \in { "ou_U1", BOT_OPEN_ID, "" } }
    \cup { [ RawEvent(0, type, [ parses |-> TRUE, text |-> << "hi" >> ], "oc_1",
                      "ou_U1", << >>) EXCEPT !.create_time = t ] :
             type \in { "text", "image" }, t \in { 0, MAX_DATE_MS + 1 } }
    \cup { RawEvent(0, "text", [ parses |-> TRUE, text |-> m.text ], "oc_1", sender,
                    m.mentions) :
             m \in MentionCases, sender \in { "ou_U1", BOT_OPEN_ID } }

NextEv ==
    \/ \E ev \in EventsEv : HandleIncomingMessage(ev)
    \/ SetRegistered(LarkJid("oc_1"))
    \/ \E c \in ConnIds : ConnectStart(c)
    \/ \E c \in ConnIds : ListenDone(c)
    \/ \E c \in ConnIds : ListenError(c)
    \/ \E c \in ConnIds, open_id \in { BOT_OPEN_ID, "undefined", "throw" } :
          BotInfoDone(c, open_id)
    \/ \E c \in ConnIds : SyncDone(c)
    \/ Disconnect

SpecEv == Init /\ [][NextEv]_vars

\* JID ownership: ownsJid is pure, so the specification draws a JID string and asks
\* every registered channel whether it owns it.
RouteJid ==
    /\ ~routing.asked
    /\ routing' = [ routing EXCEPT !.asked = TRUE,
                                   !.owners = { ch \in Channels : Owns(ch, routing.jid) } ]
    /\ UNCHANGED << lifeVars, outVars, seenMessages, now, nextSweep, registered,
                    onMessageLog, lastIn, splitCall, postCall, credentialsFile, tokenCall >>

InitJid ==
    /\ InitChannel
    /\ routing \in { [ jid |-> j, asked |-> FALSE, owners |-> {} ] : j \in JidStrings }
    /\ splitCall = NoSplit
    /\ postCall = NoPost
    /\ credentialsFile = NoFile
    /\ tokenCall = [ k \in TokenCallIds |-> IdleTokenCall ]

NextJid == RouteJid

SpecJid == InitJid /\ [][NextJid]_vars

\* Splitting: splitMarkdown is pure, so the specification draws a text and a limit
\* and calls it.
CallSplitMarkdown ==
    /\ ~splitCall.returned
    /\ splitCall' = [ splitCall EXCEPT
                        !.returned = TRUE,
                        !.chunks = splitMarkdown(splitCall.text, splitCall.maxLen),
                        !.separators = CutLoop(splitCall.text, splitCall.maxLen) ]
    /\ UNCHANGED << lifeVars, outVars, seenMessages, now, nextSweep, registered,
                    onMessageLog, lastIn, routing, postCall, credentialsFile, tokenCall >>

InitSplit ==
    /\ InitChannel
    /\ routing = NoRouting
    /\ splitCall \in { [ NoSplit EXCEPT !.text = t, !.maxLen = l ] :
                         t \in SplitTexts, l \in SplitLimits }
    /\ postCall = NoPost
    /\ credentialsFile = NoFile
    /\ tokenCall = [ k \in TokenCallIds |-> IdleTokenCall ]

NextSplit == CallSplitMarkdown

SpecSplit == InitSplit /\ [][NextSplit]_vars

\* Rendering: markdownToPostContent is pure, so the specification draws a text and
\* calls it.
CallMarkdownToPostContent ==
    /\ ~postCall.returned
    /\ postCall' = [ postCall EXCEPT
                       !.returned = TRUE,
                       !.content = markdownToPostContent(postCall.text).zh_cn.content ]
    /\ UNCHANGED << lifeVars, outVars, seenMessages, now, nextSweep, registered,
                    onMessageLog, lastIn, routing, splitCall, credentialsFile, tokenCall >>

InitMd ==
    /\ InitChannel
    /\ routing = NoRouting
    /\ splitCall = NoSplit
    /\ postCall \in { [ NoPost EXCEPT !.text = t ] : t \in MdTexts }
    /\ credentialsFile = NoFile
    /\ tokenCall = [ k \in TokenCallIds |-> IdleTokenCall ]

NextMd == CallMarkdownToPostContent

SpecMd == InitMd /\ [][NextMd]_vars

\* Credentials: the file holds some credentials at the start, time passes, and
\* callers ask for the token while the token endpoint answers as it likes.
InitTok ==
    /\ InitChannel
    /\ routing = NoRouting
    /\ splitCall = NoSplit
    /\ postCall = NoPost
    /\ credentialsFile \in CredentialFiles
    /\ tokenCall = [ k \in TokenCallIds |-> IdleTokenCall ]

NextTok ==
    \/ \E k \in TokenCallIds : GetClaudeOAuthToken(k)
    \/ \E k \in TokenCallIds, response \in Responses, writes \in BOOLEAN :
          RefreshDone(k, response, writes)
    \/ Tick

SpecTok == InitTok /\ [][NextTok]_vars

\* The outgoing side with the scheduling the event loop gives: a request in flight
\* settles and the continuation awaiting it runs.  Nothing obliges a caller to call
\* sendMessage, connect or disconnect, or the platform to change.  Messages are
\* short and carry no options.
NextLive ==
    \/ \E k \in SendIds, jid \in Jids : SendMessage(k, jid, ShortText, "none", NoUser)
    \/ \E k \in SendIds : SendRichDone(k)
    \/ \E k \in SendIds : SendFallbackDone(k)
    \/ \E c \in ConnIds : ConnectStart(c)
    \/ \E c \in ConnIds : ListenDone(c)
    \/ \E c \in ConnIds : ListenError(c)
    \/ \E c \in ConnIds : BotInfoDone(c, BOT_OPEN_ID)
    \/ \E c \in ConnIds : FlushSendDone(c)
    \/ \E c \in ConnIds : SyncDone(c)
    \/ Disconnect
    \/ PlatformToggle

Settles ==
    /\ \A k \in SendIds : WF_vars(SendRichDone(k)) /\ WF_vars(SendFallbackDone(k))
    /\ \A c \in ConnIds : /\ WF_vars(ListenDone(c)) /\ WF_vars(ListenError(c))
                          /\ WF_vars(BotInfoDone(c, BOT_OPEN_ID))
                          /\ WF_vars(FlushSendDone(c)) /\ WF_vars(SyncDone(c))

SpecLive == Init /\ [][NextLive]_vars /\ Settles

\* The incoming side with the scheduling the runtime gives: time passes, an interval
\* timer that is set fires when it is due, and a request of connect() in flight
\* settles.  Nothing obliges the platform to deliver an event or a caller to call
\* connect or disconnect.
NextSweep == NextIn

Fires ==
    /\ WF_vars(cleanupDedup) /\ WF_vars(Tick)
    /\ \A c \in ConnIds : /\ WF_vars(ListenDone(c)) /\ WF_vars(ListenError(c))
                          /\ WF_vars(BotInfoDone(c, BOT_OPEN_ID)) /\ WF_vars(SyncDone(c))

SpecSweep == Init /\ [][NextSweep]_vars /\ Fires

\* ------------------------------------------------------------- properties

InQueue(k) == \E n \in 1..Len(outgoingQueue) : outgoingQueue[n].call = k

\* the item of call k, as sendMessage queues it
ItemOf(k) == [ jid |-> sm[k].jid, text |-> sm[k].text, call |-> k ]

Last(s) == s[Len(s)]

\* C5: a sendMessage call made while connected = false issues no platform request
\* (message.create or message.reply), appends exactly one item {jid, text} to the
\* tail of the outgoing queue, and resolves.
C5_DisconnectedSendQueues ==
    [][ \A k \in SendIds :
          (sm[k].pc = "idle" /\ sm'[k].pc # "idle" /\ ~connected)
          => /\ outgoingQueue' = Append(outgoingQueue, ItemOf(k)')
             /\ sm'[k].req = NoReq
             /\ sm'[k].nRich = 0 /\ sm'[k].nFallback = 0
             /\ delivered' = delivered
             /\ sm'[k].pc = "done" /\ sm'[k].outcome = "resolved" ]_vars

C5_Witness ==
    \E k \in SendIds :
        /\ sm[k].pc = "done" /\ ~sm[k].startedConnected /\ sm[k].text = LongText
        /\ Len(outgoingQueue) = 2 /\ Last(outgoingQueue) = ItemOf(k)
        /\ delivered = << >>

\* C8: sendMessage never rejects: whatever the connected state, the options and the
\* results of the rich send and of the fallback, a call that has returned has
\* resolved, and a call that has not returned awaits a platform request.
C8_SendMessageNeverRejects ==
    \A k \in SendIds :
        /\ sm[k].outcome \in { "none", "resolved" }
        /\ sm[k].pc \in { "idle", "rich", "fallback", "done" }
        /\ sm[k].pc = "done" <=> sm[k].outcome = "resolved"
        /\ sm[k].pc \in { "rich", "fallback" } => sm[k].req # NoReq

C8_Witness ==
    \E k \in SendIds :
        /\ sm[k].pc = "done" /\ sm[k].outcome = "resolved"
        /\ sm[k].nFallback = 1 /\ InQueue(k)

\* C9: when the rich send fails, sendMessage makes exactly one fallback attempt: one
\* plain-text request holding the whole text unsplit, prefixed with the mention
\* markup when mentionUser is set, issued by message.reply to replyToMessageId when
\* that is set and by message.create otherwise; when that request settles the call
\* returns without a further request.
C9_OneFallbackAttempt ==
    [][ \A k \in SendIds :
          /\ (sm[k].pc = "rich" /\ sm'[k] # sm[k] /\ ~platformUp)
             => /\ sm'[k].pc = "fallback"
                /\ sm'[k].nFallback = 1 /\ sm'[k].nRich = sm[k].nRich
                /\ sm'[k].req.msg_type = "text"
                /\ sm'[k].req.text = IF sm[k].mention # NoUser
                                     THEN AtMarkup(sm[k].mention) \o sm[k].text
                                     ELSE sm[k].text
                /\ sm'[k].req.prim = IF sm[k].reply # "none" THEN "reply" ELSE "create"
                /\ sm'[k].req.replyTo = sm[k].reply
                /\ sm[k].reply = "none" => sm'[k].req.chat = StripLarkPrefix(sm[k].jid)
          /\ (sm[k].pc = "fallback" /\ sm'[k] # sm[k])
             => /\ sm'[k].pc = "done" /\ sm'[k].req = NoReq
                /\ sm'[k].nFallback = 1 /\ sm'[k].nRich = sm[k].nRich ]_vars

C9_Witness ==
    \E k \in SendIds :
        /\ sm[k].pc = "fallback" /\ sm[k].text = LongText /\ sm[k].nRich = 2
        /\ sm[k].reply = "om_X" /\ sm[k].mention = User1
        /\ sm[k].req.prim = "reply" /\ Len(sm[k].req.text) > Len(LongText)

\* C10: when the rich send and the fallback both fail, sendMessage appends exactly
\* one item holding jid and the original, un-prefixed text to the tail of the queue;
\* when the rich send or the fallback succeeds, it leaves the queue unchanged.
C10_QueueOnlyOnDoubleFailure ==
    [][ \A k \in SendIds :
          /\ (sm[k].pc = "fallback" /\ sm'[k] # sm[k] /\ ~platformUp)
             => outgoingQueue' = Append(outgoingQueue,
                                        [ jid |-> sm[k].jid, text |-> sm[k].text, call |-> k ])
          /\ (sm[k].pc = "fallback" /\ sm'[k] # sm[k] /\ platformUp)
             => outgoingQueue' = outgoingQueue
          /\ (sm[k].pc = "rich" /\ sm'[k] # sm[k])
             => outgoingQueue' = outgoingQueue ]_vars

\* a call with mentionUser set whose first chunk was accepted, whose second chunk
\* and fallback failed, and whose item is the tail of the queue
C10_Witness ==
    \E k \in SendIds :
        /\ sm[k].pc = "done" /\ sm[k].nFallback = 1 /\ sm[k].text = LongText
        /\ outgoingQueue # << >> /\ Last(outgoingQueue) = ItemOf(k)
        /\ \E n \in 1..Len(delivered) :
              /\ delivered[n].call = k /\ delivered[n].part = 1
              /\ Len(delivered[n].text) > Len(Chunks(LongText)[1])

\* C1: two inbound events with the same non-empty message_id, the second arriving
\* while the first's dedup entry is less than the TTL old, produce at most one
\* onMessage: no two onMessage emissions of a message id are less than DEDUP_TTL_MS
\* apart, whatever sweeps, registration changes, connects and disconnects
\* interleave.
C1_AtMostOneOnMessageWithinTtl ==
    \A id \in MsgIds :
        \A p, q \in 1..Len(onMessageLog[id]) :
            p < q => onMessageLog[id][q] - onMessageLog[id][p] >= DEDUP_TTL_MS

\* an event of a registered chat was dropped as a duplicate of a message emitted
\* earlier, less than the TTL ago
C1_Witness ==
    /\ lastIn.outcome = "duplicate"
    /\ LarkJid(lastIn.ev.chat_id) \in registered
    /\ LET log == onMessageLog[lastIn.ev.message_id]
       IN  /\ Len(log) = 1
           /\ now > log[1] /\ now - log[1] < DEDUP_TTL_MS
           /\ seenMessages[lastIn.ev.message_id] = log[1]

\* the platform accepted the whole text of call k: the fallback's single request,
\* or every chunk
FullyDelivered(k) ==
    \/ \E n \in 1..Len(delivered) : delivered[n].call = k /\ delivered[n].part = 0
    \/ \A i \in 1..Len(Chunks(sm[k].text)) :
          \E n \in 1..Len(delivered) : delivered[n].call = k /\ delivered[n].part = i

\* a flush holds the item of call k: shifted from the queue, its send not settled
BeingFlushed(k) == \E c \in ConnIds : cn[c].pc = "flush" /\ cn[c].item.call = k

\* C2: no accepted message is lost: every message whose sendMessage call has
\* returned has been delivered to the platform, is still in the outgoing queue, or
\* is the item a flush is sending (an item leaves the queue only by a successful
\* send).
C2_NoMessageLost ==
    \A k \in SendIds :
        sm[k].pc = "done" => FullyDelivered(k) \/ InQueue(k) \/ BeingFlushed(k)

\* C3: outgoing messages reach the platform in the order of their sendMessage
\* calls: no request of an earlier call is accepted after a request of a later call.
C3_DeliveredInCallOrder ==
    \A p, q \in 1..Len(delivered) :
        p < q => delivered[p].call <= delivered[q].call

\* two accepted requests carry the same part of the same call's text
Overlap(d, e) ==
    /\ d.call = e.call
    /\ d.part = e.part \/ d.part = 0 \/ e.part = 0

\* C4: no part of a message's text is delivered more than once, across the chunked
\* rich send, the fallback and a later flush of the queued item.
C4_NoPartDeliveredTwice ==
    \A p, q \in 1..Len(delivered) :
        p # q => ~Overlap(delivered[p], delivered[q])

\* the requests the flush of connect() call c had accepted, as << call, part >>
FlushLog(c) ==
    LET mine == SelectSeq(delivered, LAMBDA d : d.by = c)
    IN  [ n \in 1..Len(mine) |-> << mine[n].call, mine[n].part >> ]

\* every chunk of every call of the sequence, in order
RECURSIVE ChunksInOrder(_)
ChunksInOrder(calls) ==
    IF Len(calls) = 0 THEN << >>
    ELSE [ i \in 1..Len(Chunks(sm[Head(calls)].text)) |-> << Head(calls), i >> ]
         \o ChunksInOrder(Tail(calls))

CallsOf(queue) == [ n \in 1..Len(queue) |-> queue[n].call ]

IsPrefix(s, t) == Len(s) <= Len(t) /\ SubSeq(t, 1, Len(s)) = s

\* a request of a flush was accepted for every chunk of call k
FlushedWhole(k) ==
    \A i \in 1..Len(Chunks(sm[k].text)) :
        \E n \in 1..Len(delivered) :
            delivered[n].call = k /\ delivered[n].part = i /\ delivered[n].via = "flush"

\* C6 as stated, read to its advantage (the items are those in the queue when
\* connect() reached its flush): when connect() completes, every one of them has been
\* sent through the direct-send path and none of them is left in the queue.
C6_ConnectCompletesDrained ==
    [][ \A c \in ConnIds :
          (cn[c].pc = "sync" /\ cn'[c].pc = "done")
          => \A n \in 1..Len(cn[c].queueAtFlush) :
                /\ FlushedWhole(cn[c].queueAtFlush[n].call)'
                /\ ~InQueue(cn[c].queueAtFlush[n].call)' ]_vars

\* what a flush that has ended without error has done
Drained(c) ==
    /\ IsPrefix(CallsOf(cn[c].queueAtFlush), cn[c].flushedCalls)
    /\ FlushLog(c) = ChunksInOrder(cn[c].flushedCalls)

\* C6 as amended: when connect() completes and its flush found flushing = false,
\* every item that was in the queue when the flush was called, and every item
\* appended while it ran, has been sent through the direct-send path in the order it
\* was enqueued, chunk by chunk and one item at a time (no two flush loops hold a
\* request in flight), and the queue was empty at the moment the flush loop ended.
C6_FlushDrainsInOrder ==
    [][ /\ \A c \in ConnIds :
             /\ (cn[c].pc = "flush" /\ cn'[c].pc = "sync")
                => outgoingQueue' = << >> /\ Drained(c)'
             /\ (cn[c].pc = "sync" /\ cn'[c].pc = "done" /\ cn[c].flushedCalls # << >>)
                => Drained(c)'
        /\ \A c, d \in ConnIds :
             (cn'[c].pc = "flush" /\ cn'[d].pc = "flush") => c = d ]_vars

\* a flush that found two queued items, one of two chunks, has ended
C6_Witness ==
    \E c \in ConnIds :
        /\ cn[c].pc = "done"
        /\ Len(cn[c].queueAtFlush) = 2 /\ Len(cn[c].flushedCalls) = 2
        /\ Len(FlushLog(c)) = 3
        /\ outgoingQueue = << >>

\* C7: every queued item is eventually delivered once the channel is connected
\* and platform sends succeed: from a state where the item of call k is queued, the
\* channel connected and the platform up, the text of k is delivered, unless the
\* channel disconnects or the platform fails again first.
C7_QueuedEventuallyDelivered ==
    \A k \in SendIds :
        (InQueue(k) /\ connected /\ platformUp)
        ~> (FullyDelivered(k) \/ ~connected \/ ~platformUp)

\* ------------------------------------------------ inbound handling (SpecEv)

\* the step is a call of handleIncomingMessage
Handled == lastIn' # lastIn /\ lastIn'.kind = "event"

\* C11: onMessage is invoked for an event only if the event's JID is a key of the
\* registered-group mapping at the time the event is handled, and a change of the
\* mapping emits nothing by itself: it takes effect on the next event.
C11_OnMessageOnlyIfRegisteredAtEvent ==
    [][ /\ Handled /\ lastIn'.msg # << >>
           => /\ LarkJid(lastIn'.ev.chat_id) \in registered
              /\ lastIn'.msg[1].chat_jid = LarkJid(lastIn'.ev.chat_id)
        /\ Handled /\ lastIn'.ev.hasMessage /\ LarkJid(lastIn'.ev.chat_id) \notin registered
           => lastIn'.msg = << >>
        /\ registered' # registered
           => lastIn' = lastIn /\ onMessageLog' = onMessageLog ]_vars

\* a message of the chat was delivered while the chat was registered, and a later
\* event of the same chat, handled after the chat was unregistered, is not
C11_Witness ==
    /\ onMessageLog[1] # << >>
    /\ lastIn.outcome = "unregistered"
    /\ lastIn.ev.chat_id = "oc_1"
    /\ lastIn.meta # << >> /\ lastIn.msg = << >>
    /\ LarkJid("oc_1") \notin registered

\* the event reaches the metadata emission: it is not dropped as a duplicate, its
\* type is text, its content parses to a non-empty text, it has a chat id and its
\* create_time, when it has one, is a time a Date can hold (lark.ts:340-371),
\* judged in the state before the handler runs
ReachesMetadata(ev) ==
    /\ ev.hasMessage
    /\ ev.message_id = 0 \/ seenMessages[ev.message_id] = NotSeen
    /\ ev.message_type = "text"
    /\ ev.content.parses /\ Len(ev.content.text) > 0
    /\ ev.chat_id # ""
    /\ ev.create_time <= MAX_DATE_MS

\* C12 as stated: every event with a resolvable chat id produces an onChatMetadata
\* emission, whatever its content type, whether or not its content parses and
\* whether or not the chat is registered.
C12_MetadataForEveryChatId ==
    [][ Handled /\ lastIn'.ev.hasMessage /\ lastIn'.ev.chat_id # ""
        => lastIn'.meta # << >> ]_vars

\* C12 as amended: an event produces exactly one onChatMetadata emission, for its
\* JID and with the channel tag lark, if and only if it is not dropped as a
\* duplicate, is of type text, has content that parses to a non-empty text, has a
\* chat id and has no create_time beyond the range of a Date; whether the chat is
\* registered plays no part.
C12_MetadataForEveryTextEvent ==
    [][ Handled
        => IF ReachesMetadata(lastIn'.ev)
           THEN /\ Len(lastIn'.meta) = 1
                /\ lastIn'.meta[1].jid = LarkJid(lastIn'.ev.chat_id)
                /\ lastIn'.meta[1].channel = "lark"
           ELSE lastIn'.meta = << >> ]_vars

\* a text event of an unregistered chat produced the metadata and no message
C12_Witness ==
    /\ lastIn.outcome = "unregistered"
    /\ lastIn.ev.message_type = "text"
    /\ LarkJid(lastIn.ev.chat_id) \notin registered
    /\ Len(lastIn.meta) = 1 /\ lastIn.msg = << >>

\* C13: an event whose message_type is not text produces neither an onMessage nor
\* an onChatMetadata emission, and the handler returns normally.
C13_NonTextEmitsNothing ==
    lastIn.kind = "event" /\ lastIn.ev.hasMessage /\ lastIn.ev.message_type # "text"
    => /\ lastIn.meta = << >>
       /\ lastIn.msg = << >>
       /\ lastIn.outcome \in { "duplicate", "not text" }

\* an image event of a registered chat, with a chat id and content that parses, was
\* skipped
C13_Witness ==
    /\ lastIn.outcome = "not text"
    /\ lastIn.ev.message_type = "image"
    /\ lastIn.ev.chat_id = "oc_1" /\ lastIn.ev.content.parses
    /\ LarkJid("oc_1") \in registered
    /\ lastIn.meta = << >> /\ lastIn.msg = << >>

\* the step is a call of handleIncomingMessage that invoked onMessage
Emitted == Handled /\ lastIn'.msg # << >>

\* the event is from the bot itself, as far as the channel knows its identity
FromSelf(ev) == botOpenId # "undefined" /\ ev.sender = botOpenId

\* the keys of the mentions of the bot that occur in the text of the event
BotKeys(ev) ==
    { ev.mentions[n].key : n \in { m \in 1..Len(ev.mentions) :
          /\ ev.mentions[m].open_id = botOpenId
          /\ Len(ev.mentions[m].key) > 0
          /\ IndexOf(ev.content.text, ev.mentions[m].key) > 0 } }

\* C14: for a message that is not from the bot and mentions the bot, the emitted
\* content is the text with the placeholder of each mention of the bot replaced, where
\* it first stands, by @<AssistantName> and with nothing else changed, preceded by
\* "@<AssistantName> " exactly when the replaced text does not match the trigger
\* pattern at its start: the content matches the trigger pattern at its start and
\* the prefix is added at most once.
C14_BotMentionBecomesTrigger ==
    [][ Emitted /\ ~FromSelf(lastIn'.ev) /\ BotKeys(lastIn'.ev) # {}
        => LET text == lastIn'.ev.content.text
               content == lastIn'.msg[1].content
               prefixed == Len(content) = Len(text) + 2
               replaced == IF prefixed THEN SubSeq(content, 3, Len(content)) ELSE content
               firsts == { IndexOf(text, key) : key \in BotKeys(lastIn'.ev) }
           IN  /\ TriggerMatches(content)
               /\ Len(replaced) = Len(text)
               /\ \A p \in 1..Len(text) :
                     replaced[p] = IF p \in firsts THEN Trigger ELSE text[p]
               /\ prefixed <=> ~TriggerMatches(replaced)
               /\ prefixed => content[1] = Trigger /\ content[2] = " " ]_vars

\* the bot was mentioned at the end of the text: the placeholder was replaced and
\* the trigger prepended once
C14_Witness ==
    /\ lastIn.outcome = "delivered"
    /\ lastIn.ev.content.text = << "hi", " ", "@_user_1" >>
    /\ lastIn.ev.sender = "ou_U1"
    /\ lastIn.msg[1].content = << "@Jonesy", " ", "hi", " ", "@Jonesy" >>

\* C15: when the message is from the bot, or no mention entry refers to the bot,
\* the emitted content equals the parsed text: placeholders of other identities
\* stay as they are and no trigger is prepended.
C15_OtherMentionsUntouched ==
    [][ Emitted
        /\ \/ FromSelf(lastIn'.ev)
           \/ \A n \in 1..Len(lastIn'.ev.mentions) :
                 lastIn'.ev.mentions[n].open_id # botOpenId
        => lastIn'.msg[1].content = lastIn'.ev.content.text ]_vars

\* with the bot identity known, a message of another user that mentions a third
\* user was emitted with the placeholder in place
C15_Witness ==
    /\ lastIn.outcome = "delivered"
    /\ botOpenId = BOT_OPEN_ID
    /\ lastIn.ev.sender = "ou_U1"
    /\ lastIn.ev.mentions = << OtherMention(K2) >>
    /\ lastIn.msg[1].content = << "@_user_2", " ", "hi" >>
    /\ lastIn.msg[1].is_from_me = FALSE

\* C16: the emitted message has is_from_me = is_bot_message = true exactly when
\* the bot identity was obtained and the sender's open_id equals it, and then
\* sender_name is the assistant name; otherwise both flags are false.
C16_SelfFlags ==
    [][ Emitted
        => LET m == lastIn'.msg[1]
               self == botOpenId # "undefined" /\ lastIn'.ev.sender = botOpenId
           IN  /\ m.is_from_me = self
               /\ m.is_bot_message = self
               /\ self => m.sender_name = ASSISTANT_NAME ]_vars

\* a message of the bot itself was emitted, flagged and named
C16_Witness ==
    /\ lastIn.outcome = "delivered"
    /\ botOpenId = BOT_OPEN_ID
    /\ lastIn.ev.sender = BOT_OPEN_ID
    /\ lastIn.msg[1].is_from_me /\ lastIn.msg[1].is_bot_message
    /\ lastIn.msg[1].sender_name = ASSISTANT_NAME

\* ------------------------------------------------ the direct-send path (Spec)

\* the first element of the mention markup
IsAtOpen(e) == e = "<at user_id="

\* C17: with replyToMessageId = X the direct-send path sends chunk 1 by the reply
\* primitive referencing X and every later chunk by the create primitive with no
\* reply reference; without replyToMessageId, and in a flush, it never uses the
\* reply primitive; the chunks go out in chunk order, each after the one before it
\* was accepted.
C17_ReplyFirstChunkOnly ==
    [][ /\ \A k \in SendIds : sm'[k].pc = "rich" =>
              LET r == sm'[k].req
                  first == r.part = 1 /\ sm'[k].reply # "none"
              IN  /\ r.part = sm'[k].i /\ r.part \in 1..Len(Chunks(sm'[k].text))
                  /\ first => r.prim = "reply" /\ r.replyTo = sm'[k].reply
                  /\ ~first => /\ r.prim = "create" /\ r.replyTo = "none"
                               /\ r.chat = StripLarkPrefix(sm'[k].jid)
                  /\ IF sm[k].pc = "rich" /\ sm'[k].req # sm[k].req
                     THEN /\ r.part = sm[k].req.part + 1
                          /\ delivered' = Append(delivered, sm[k].req)
                     ELSE sm[k].pc = "rich" \/ r.part = 1
        /\ \A c \in ConnIds : cn'[c].pc = "flush" =>
              cn'[c].req.prim = "create" /\ cn'[c].req.replyTo = "none" ]_vars

\* chunk 1 of a two-chunk reply was accepted as a reply to X and chunk 2 is going
\* out by create
C17_Witness ==
    \E k \in SendIds :
        /\ sm[k].pc = "rich" /\ sm[k].reply = "om_X" /\ sm[k].i = 2
        /\ sm[k].req.prim = "create" /\ sm[k].req.replyTo = "none"
        /\ \E n \in 1..Len(delivered) :
              /\ delivered[n].call = k /\ delivered[n].part = 1
              /\ delivered[n].prim = "reply" /\ delivered[n].replyTo = "om_X"

\* C18: every chunk text the direct-send path hands to the platform, the first
\* chunk with its mention prefix included, is at most MAX_TEXT_LENGTH long.
C18_ChunkWithMentionWithinLimit ==
    /\ \A k \in SendIds : sm[k].pc = "rich" => Len(sm[k].req.text) <= MAX_TEXT_LENGTH
    /\ \A c \in ConnIds : cn[c].pc = "flush" => Len(cn[c].req.text) <= MAX_TEXT_LENGTH

\* C19: with mentionUser set the first chunk is the mention markup followed by the
\* chunk, and every later chunk is the chunk alone; a message sent without
\* mentionUser, by the rich send, the fallback or a flush, carries no markup.
C19_MentionOnFirstChunkOnly ==
    /\ \A k \in SendIds : sm[k].pc = "rich" =>
          LET r == sm[k].req
              chunk == Chunks(sm[k].text)[sm[k].i]
          IN  IF sm[k].i = 1 /\ sm[k].mention # NoUser
              THEN /\ Len(r.text) = Len(chunk) + 6
                   /\ IsAtOpen(r.text[1]) /\ r.text[2] = sm[k].mention.id
                   /\ r.text[4] = sm[k].mention.name
                   /\ SubSeq(r.text, 7, Len(r.text)) = chunk
              ELSE r.text = chunk /\ \A p \in 1..Len(r.text) : ~IsAtOpen(r.text[p])
    /\ \A k \in SendIds : sm[k].pc = "fallback" /\ sm[k].mention = NoUser =>
          sm[k].req.text = sm[k].text
    /\ \A c \in ConnIds : cn[c].pc = "flush" =>
          \A p \in 1..Len(cn[c].req.text) : ~IsAtOpen(cn[c].req.text[p])

\* the first chunk of a two-chunk message with a mention was accepted with the
\* markup and the second chunk is going out without it
C19_Witness ==
    \E k \in SendIds :
        /\ sm[k].pc = "rich" /\ sm[k].mention = User1 /\ sm[k].i = 2
        /\ sm[k].req.text = Chunks(sm[k].text)[2]
        /\ \E n \in 1..Len(delivered) :
              /\ delivered[n].call = k /\ delivered[n].part = 1
              /\ delivered[n].text = AtMarkup(User1) \o Chunks(sm[k].text)[1]

\* ------------------------------------------------ JID ownership (SpecJid)

\* C20: ownsJid partitions the JID space: for every JID string at most one
\* registered channel's ownsJid returns true; no JID that LarkChannel.ownsJid
\* accepts is accepted by the WhatsApp patterns.
C20_AtMostOneOwner ==
    routing.asked => Cardinality(routing.owners) <= 1

\* ------------------------------------------------ splitting (SpecSplit)

\* the concatenation of a sequence of texts
RECURSIVE Concat(_)
Concat(ss) == IF Len(ss) = 0 THEN << >> ELSE Head(ss) \o Concat(Tail(ss))

\* the chunks in order, each followed by what the cut after it consumed
Rejoin(chunks, separators) ==
    Concat([ n \in 1..Len(chunks) |->
               chunks[n] \o (IF n <= Len(separators) THEN separators[n] ELSE << >>) ])

HasNewline(text) == \E p \in 1..Len(text) : text[p] = NL

\* C21: rejoining the chunks of splitMarkdown(T, L) in order, with the separator
\* each cut consumed put back at the cut, gives T: no character of T is dropped or
\* duplicated.
C21_RejoinReconstructs ==
    splitCall.returned =>
        /\ Len(splitCall.separators) \in { Len(splitCall.chunks) - 1, Len(splitCall.chunks) }
        /\ Rejoin(splitCall.chunks, splitCall.separators) = splitCall.text

\* a text was cut at a paragraph boundary, at a line boundary and by a hard cut
C21_Witness ==
    /\ splitCall.returned
    /\ << NL, NL >> \in { splitCall.separators[n] : n \in 1..Len(splitCall.separators) }
    /\ << NL >> \in { splitCall.separators[n] : n \in 1..Len(splitCall.separators) }
    /\ << >> \in { splitCall.separators[n] : n \in 1..Len(splitCall.separators) }

\* C22: every chunk of splitMarkdown(T, L) is at most L long, and the chunks come
\* in source order: each is the text found where the chunks and separators before
\* it end.
C22_ChunksWithinLimitInOrder ==
    splitCall.returned =>
        \A n \in 1..Len(splitCall.chunks) :
            LET chunk == splitCall.chunks[n]
                before == Len(Rejoin(SubSeq(splitCall.chunks, 1, n - 1),
                                     SubSeq(splitCall.separators, 1, n - 1)))
            IN  /\ Len(chunk) <= splitCall.maxLen
                /\ chunk = SubSeq(splitCall.text, before + 1, before + Len(chunk))

\* a text was cut at a newline that stands exactly at the limit: the chunk is as
\* long as the limit allows
C22_Witness ==
    /\ splitCall.returned
    /\ Len(splitCall.chunks) >= 2
    /\ Len(splitCall.chunks[1]) = splitCall.maxLen
    /\ splitCall.separators[1] = << NL >>

\* C23: splitMarkdown(T, L) is the one-element list [T] whenever len(T) <= L, the
\* exact fit and the empty text included.
C23_FitsInOneChunk ==
    splitCall.returned /\ Len(splitCall.text) <= splitCall.maxLen
    => splitCall.chunks = << splitCall.text >>

\* the empty text was split into the list holding the empty text
C23_Witness ==
    /\ splitCall.returned
    /\ splitCall.text = << >>
    /\ splitCall.chunks = << << >> >>

\* C24: a text without newline that is longer than L is hard-cut at exactly L: it
\* gives ceil(len(T)/L) chunks, all L long except possibly the last, whose
\* concatenation is T.
C24_HardCutAtLimit ==
    splitCall.returned /\ ~HasNewline(splitCall.text)
    /\ Len(splitCall.text) > splitCall.maxLen
    => LET len == Len(splitCall.text)
           L == splitCall.maxLen
           count == (len + L - 1) \div L
       IN  /\ Len(splitCall.chunks) = count
           /\ \A n \in 1..(count - 1) : Len(splitCall.chunks[n]) = L
           /\ Len(splitCall.chunks[count]) = len - (count - 1) * L
           /\ Concat(splitCall.chunks) = splitCall.text

\* a text of five characters without newline was cut at limit 2 into 2 + 2 + 1
C24_Witness ==
    /\ splitCall.returned /\ ~HasNewline(splitCall.text)
    /\ Len(splitCall.text) = 5 /\ splitCall.maxLen = 2
    /\ Len(splitCall.chunks) = 3
    /\ Len(splitCall.chunks[3]) = 1

\* ------------------------------------------------ disconnect (Spec)

\* what disconnect() leaves: not connected, no sweep timer, no server held
Disconnected == ~connected /\ ~dedupTimer /\ server = 0

\* connect() was never called
NeverConnected == \A c \in ConnIds : cn[c].pc = "idle"

C26_SendDuringFlushIsQueued ==
    [][ \A k \in SendIds :
          flushing /\ sm[k].pc = "idle" /\ sm'[k].pc # "idle"
          => /\ sm'[k].pc = "done"
             /\ outgoingQueue' = Append(outgoingQueue,
                    [ jid |-> sm'[k].jid, text |-> sm'[k].text, call |-> k ]) ]_vars

\* ------------------------------------------------- the flushing guard (Spec)

\* the connect() calls whose flushOutgoingQueue is inside its loop
Flushers == { c \in ConnIds : cn[c].pc = "flush" }

\* C27: at most one flushOutgoingQueue invocation is draining the queue at any
\* time, and a flush requested while flushing = true returns without removing or
\* sending any item.
C27_FlushNeverReentered ==
    /\ [](Cardinality(Flushers) <= 1 /\ (Flushers # {} => flushing))
    /\ [][ \A c \in ConnIds :
             flushing /\ cn[c].pc = "botinfo" /\ cn'[c].pc # "botinfo"
             => /\ cn'[c].pc = "sync"
                /\ cn'[c].req = NoReq
                /\ UNCHANGED << outgoingQueue, delivered, flushing >> ]_vars

\* one connect() is flushing and another, which found items in the queue, has
\* returned from its flush without taking any
C27_Witness ==
    \E c, d \in ConnIds :
        /\ cn[c].pc = "flush"
        /\ cn[d].pc \in { "sync", "done" }
        /\ cn[d].queueAtFlush # << >>
        /\ cn[d].flushedCalls = << >>
        /\ outgoingQueue # << >>

\* ------------------------------------------------- the dedup window (SpecIn)

\* C28: an inbound event is discarded as a duplicate exactly when its message id
\* was first seen no longer ago than the TTL; an event whose id was recorded longer
\* ago than the TTL is not discarded and its id is recorded again.
C28_DuplicateExactlyWithinTtl ==
    [][ Handled /\ lastIn'.ev.hasMessage /\ lastIn'.ev.message_id # 0
        => LET seen   == seenMessages[lastIn'.ev.message_id]
               recent == seen # NotSeen /\ now - seen <= DEDUP_TTL_MS
           IN  /\ lastIn'.outcome = "duplicate" <=> recent
               /\ seen # NotSeen /\ ~recent
                  => seenMessages'[lastIn'.ev.message_id] = now ]_vars

\* ---------------------------------------------- the periodic sweep (SpecSweep)

\* the entry of id is older than the TTL
Expired(id) == seenMessages[id] # NotSeen /\ now - seenMessages[id] > DEDUP_TTL_MS

\* C29: while the channel is receiving events, a dedup entry older than the TTL is
\* eventually purged by the periodic sweep, also after a disconnect() followed by
\* a connect().
C29_ExpiredEntriesEventuallyPurged ==
    \A id \in MsgIds :
        (Expired(id) /\ listening # {}) ~> (~Expired(id) \/ listening = {})

\* the step is a run of cleanupDedup
Swept == nextSweep' # nextSweep

\* C30: the sweep deletes only entries first seen more than the TTL ago: whatever
\* events interleave, an entry is never changed, and is removed only by a sweep and
\* only when it is older than the TTL, and a sweep adds no entry.
C30_SweepDeletesOnlyExpired ==
    [][ \A id \in MsgIds :
          /\ seenMessages[id] # NotSeen /\ seenMessages'[id] # seenMessages[id]
             => Swept /\ Expired(id) /\ seenMessages'[id] = NotSeen
          /\ Swept /\ seenMessages[id] = NotSeen => seenMessages'[id] = NotSeen ]_vars

\* the sweep due now has run and has kept an entry that is exactly the TTL old
C30_Witness ==
    /\ dedupTimer /\ now >= DEDUP_CLEANUP_INTERVAL_MS /\ nextSweep > now
    /\ \E id \in MsgIds :
          seenMessages[id] # NotSeen /\ now - seenMessages[id] = DEDUP_TTL_MS

\* ------------------------------------------- events after disconnect (SpecIn)

\* C31: after disconnect() has completed and until connect() is called again (the
\* channel holds no server), no inbound event is processed: no onMessage, no
\* onChatMetadata and no insertion into the dedup map.
C31_NoInboundAfterDisconnect ==
    [][ server = 0
        => /\ ~Handled
           /\ onMessageLog' = onMessageLog
           /\ \A id \in MsgIds : seenMessages[id] = NotSeen
                                    => seenMessages'[id] = NotSeen ]_vars

\* ---------------------------------------------- where the cut falls (SpecSplit)

MaxOf(S) == CHOOSE p \in S : \A q \in S : q <= p

\* the remainder the n-th cut of the recorded call was made in
RemainderAt(n) ==
    SliceFrom(splitCall.text,
              Len(Rejoin(SubSeq(splitCall.chunks, 1, n - 1),
                         SubSeq(splitCall.separators, 1, n - 1))))

\* the 0-based positions from lo to L at which a double, a single newline starts
DoubleNewlines(rem, lo, L) ==
    { p \in lo..L : p + 2 <= Len(rem) /\ rem[p + 1] = NL /\ rem[p + 2] = NL }

SingleNewlines(rem, lo, L) ==
    { p \in lo..L : p + 1 <= Len(rem) /\ rem[p + 1] = NL }

\* the n-th cut falls at the last double newline among the positions lo..L if there
\* is one, else at the last single newline among them if there is one, else at L
CutPrefers(n, lo) ==
    LET L   == splitCall.maxLen
        rem == RemainderAt(n)
        D   == DoubleNewlines(rem, lo, L)
        N   == SingleNewlines(rem, lo, L)
        p   == Len(splitCall.chunks[n])
        sep == splitCall.separators[n]
    IN  /\ Len(rem) > L
        /\ IF D # {} THEN p = MaxOf(D) /\ sep = << NL, NL >>
           ELSE IF N # {} THEN p = MaxOf(N) /\ sep = << NL >>
           ELSE p = L /\ sep = << >>

\* C32 as stated: every cut of splitMarkdown falls at the last double newline at or
\* before position L whenever there is one, else at the last single newline at or
\* before L, else exactly at L.
C32_CutAtLastNewlineUpToLimit ==
    splitCall.returned => \A n \in 1..Len(splitCall.separators) : CutPrefers(n, 0)

\* C32 as amended: the same, over the positions 1..L: a newline at position 0 of the
\* remainder is no place to cut.
C32_CutAtLastNewlineAfterStart ==
    splitCall.returned => \A n \in 1..Len(splitCall.separators) : CutPrefers(n, 1)

\* a text that starts with a double newline and holds none elsewhere was cut: the
\* double newline at position 0 was passed over for the single newline at position 1
C32_Witness ==
    /\ splitCall.returned
    /\ Len(splitCall.text) > splitCall.maxLen
    /\ DoubleNewlines(splitCall.text, 0, splitCall.maxLen) = { 0 }
    /\ splitCall.chunks[1] = << NL >>
    /\ splitCall.separators[1] = << NL >>

\* ------------------------------------------------- rendering a post (SpecMd)

\* the source lines of the recorded call
SourceLines == SplitLines(postCall.text)

\* line n is a fence line or stands after an odd number of fence lines
InFence(n) ==
    \/ IsFence(SourceLines[n])
    \/ Cardinality({ m \in 1..(n - 1) : IsFence(SourceLines[m]) }) % 2 = 1

\* C33: markdownToPostContent emits one block per source line, in source order:
\* as many blocks as the text has newlines, plus one; a line inside a fence, fence
\* lines included, is one literal text span, and a blank line outside a fence is
\* one empty text span.
C33_OneBlockPerLine ==
    postCall.returned =>
        /\ Len(postCall.content)
              = Cardinality({ p \in 1..Len(postCall.text) : postCall.text[p] = NL }) + 1
        /\ Len(SourceLines) = Len(postCall.content)
        /\ \A n \in 1..Len(SourceLines) :
              /\ InFence(n) => postCall.content[n] = << TextSpan(SourceLines[n], << >>) >>
              /\ ~InFence(n) /\ SourceLines[n] = << >>
                 => postCall.content[n] = << TextSpan(<< >>, << >>) >>

\* a blank line, a fence line and an italic line inside the fence gave three blocks:
\* the empty span, and the two lines as they stand
C33_Witness ==
    /\ postCall.returned
    /\ SourceLines = << << >>, << BT, BT, BT >>, << "*", "a", "*" >> >>
    /\ postCall.content = << << TextSpan(<< >>, << >>) >>,
                             << TextSpan(<< BT, BT, BT >>, << >>) >>,
                             << TextSpan(<< "*", "a", "*" >>, << >>) >> >>

\* the text of heading n: what follows the "#"s and the whitespace after them
HeadingText(n) ==
    LET line == SourceLines[n]
        h == LeadingCount(line, { "#" })
        rest == SubSeq(line, h + 1, Len(line))
    IN  SubSeq(rest, LeadingCount(rest, { " " }) + 1, Len(rest))

\* line n is a heading outside a fence: one to six "#", whitespace and a text
IsHeading(n) ==
    /\ ~InFence(n)
    /\ LeadingCount(SourceLines[n], { "#" }) \in 1..6
    /\ SourceLines[n][LeadingCount(SourceLines[n], { "#" }) + 1] = " "
    /\ HeadingText(n) # << >>

\* C34 as stated: a heading line outside a fence is rendered as a block of exactly
\* one bold span holding the heading text, whatever markup the text contains.
C34_HeadingIsOneBoldSpan ==
    postCall.returned =>
        \A n \in 1..Len(SourceLines) :
            IsHeading(n) =>
                /\ Len(postCall.content[n]) = 1
                /\ postCall.content[n][1].tag = "text"
                /\ postCall.content[n][1].style = << "bold" >>

\* C34 as amended: a heading line outside a fence is rendered as one block holding
\* the elements of the heading text parsed as inline markup: every text span among
\* them carries bold after its own style, link and mention elements are as parsed;
\* a heading text without inline markup gives exactly one bold span holding it.
C34_HeadingElementsAreBold ==
    postCall.returned =>
        \A n \in 1..Len(SourceLines) :
            IsHeading(n) =>
                LET block  == postCall.content[n]
                    parsed == parseLineToElements(HeadingText(n))
                IN  /\ Len(block) = Len(parsed)
                    /\ \A i \in 1..Len(block) :
                          IF parsed[i].tag = "text"
                          THEN /\ block[i].tag = "text" /\ block[i].text = parsed[i].text
                               /\ block[i].style = parsed[i].style \o << "bold" >>
                          ELSE block[i] = parsed[i]
                    /\ PlainMatch(HeadingText(n)) = Len(HeadingText(n))
                       => block = << TextSpan(HeadingText(n), << "bold" >>) >>

\* the heading "## **a** a" gave two spans, both bold
C34_Witness ==
    /\ postCall.returned
    /\ SourceLines[1] = << "#", "#", " ", "*", "*", "a", "*", "*", " ", "a" >>
    /\ postCall.content[1] = << TextSpan(<< "a" >>, << "bold", "bold" >>),
                                TextSpan(<< " ", "a" >>, << "bold" >>) >>

\* --------------------------------------------- sends and connected (Spec)

\* the step starts a platform request for sendMessage call k, for the flush of
\* connect() call c
SendStarts(k) == sm'[k].req # NoReq /\ sm'[k].req # sm[k].req
FlushStarts(c) == cn'[c].req # NoReq /\ cn'[c].req # cn[c].req

\* C35 as stated: a platform send primitive is invoked only while connected = true,
\* also by a flush loop that was running when disconnect() was called.
C35_SendsOnlyWhileConnected ==
    [][ /\ \A k \in SendIds : SendStarts(k) => connected'
        /\ \A c \in ConnIds : FlushStarts(c) => connected' ]_vars

\* C35 as amended: a call first invokes a platform send primitive only while
\* connected = true; only a chunked send, a fallback or a flush loop that is
\* already running goes on starting requests while connected = false.
C35_SendsStartOnlyWhileConnected ==
    [][ /\ \A k \in SendIds :
              SendStarts(k) => connected' \/ sm[k].pc \in { "rich", "fallback" }
        /\ \A c \in ConnIds :
              FlushStarts(c) => connected' \/ cn[c].pc = "flush" ]_vars

\* disconnected, a flush loop is sending its second item, which was not in the
\* queue when the flush began and which sendMessage queued while disconnected
C35_Witness ==
    \E c \in ConnIds :
        /\ ~connected
        /\ cn[c].pc = "flush"
        /\ Len(cn[c].queueAtFlush) = 1
        /\ Len(cn[c].flushedCalls) = 2
        /\ ~sm[cn[c].item.call].startedConnected

\* ------------------------------------------------ a failed flush (Spec)

\* C36: when the send of a queued item fails during the flush connect() started,
\* connect() rejects and goes no further, flushing is reset to false and the items
\* behind the failed one stay in the queue in their order; flushing is true only
\* while a flush loop is active.
C36_FailedFlushRejectsAndResets ==
    /\ [](flushing => Flushers # {})
    /\ [][ \A c \in ConnIds :
             /\ cn[c].pc = "flush" /\ ~platformUp /\ cn'[c] # cn[c]
                => /\ cn'[c].pc = "failed"
                   /\ ~flushing'
                   /\ outgoingQueue' = outgoingQueue
                   /\ delivered' = delivered
             /\ cn[c].pc = "failed" => cn'[c] = cn[c] ]_vars

\* the flush of a connect() failed on its first item with another item behind it:
\* that item is in the queue and the guard is down
C36_Witness ==
    \E c \in ConnIds :
        /\ cn[c].pc = "failed"
        /\ Len(cn[c].queueAtFlush) = 2
        /\ cn[c].flushedCalls = << cn[c].queueAtFlush[1].call >>
        /\ outgoingQueue = << cn[c].queueAtFlush[2] >>
        /\ ~flushing

\* ------------------------------------ the id is recorded first (SpecEv)

\* the checks that come after the dedup check
LaterChecks == { "not text", "unparseable", "empty text", "no chat id", "unregistered" }

\* C37: the message id is recorded before the type, parse, chat-id and registration
\* checks: an event dropped by one of them leaves its id in the dedup map, and an
\* event whose id is in the map produces no onMessage and no onChatMetadata, also
\* when its chat has been registered since.
C37_IdRecordedBeforeChecks ==
    [][ Handled /\ lastIn'.ev.hasMessage /\ lastIn'.ev.message_id # 0
        => /\ lastIn'.outcome \in LaterChecks
              => seenMessages'[lastIn'.ev.message_id] = now
           /\ seenMessages[lastIn'.ev.message_id] # NotSeen
              => /\ lastIn'.outcome = "duplicate"
                 /\ lastIn'.msg = << >> /\ lastIn'.meta = << >>
                 /\ onMessageLog' = onMessageLog ]_vars

\* a text event of a registered chat was dropped as a duplicate although no
\* message with its id was ever emitted: the id was recorded by a dropped event
C37_Witness ==
    /\ lastIn.kind = "event" /\ lastIn.outcome = "duplicate"
    /\ lastIn.ev.message_type = "text" /\ lastIn.ev.content.parses
    /\ lastIn.ev.content.text # << >> /\ lastIn.ev.chat_id = "oc_1"
    /\ LarkJid("oc_1") \in registered
    /\ onMessageLog[lastIn.ev.message_id] = << >>

\* ------------------------------------- a failed identity lookup (SpecEv)

\* with the bot identity unknown, an emitted message is not marked as the bot's and
\* its content is the parsed text
PlainWhenUnknown ==
    Emitted /\ botOpenId = "undefined"
    => /\ ~lastIn'.msg[1].is_from_me /\ ~lastIn'.msg[1].is_bot_message
       /\ lastIn'.msg[1].content = lastIn'.ev.content.text

\* C38 as stated: when the bot-identity lookup fails, connect() goes on with
\* connected = true and an unknown bot identity, and with the identity unknown no
\* message is marked is_from_me or is_bot_message and every emitted content is the
\* parsed text.
C38_FailedLookupLeavesIdentityUnknown ==
    [][ /\ \A c \in ConnIds :
              BotInfoDone(c, "throw")
              => /\ connected' /\ cn'[c].pc \in { "flush", "sync" }
                 /\ botOpenId' = "undefined"
        /\ PlainWhenUnknown ]_vars

\* C38 as amended: when the bot-identity lookup fails, connect() goes on with
\* connected = true and the bot identity as it was, unknown unless an earlier
\* connect() obtained it; with the identity unknown no message is marked
\* is_from_me or is_bot_message and every emitted content is the parsed text.
C38_FailedLookupKeepsIdentity ==
    [][ /\ \A c \in ConnIds :
              BotInfoDone(c, "throw")
              => /\ connected' /\ cn'[c].pc \in { "flush", "sync" }
                 /\ botOpenId' = botOpenId
        /\ PlainWhenUnknown ]_vars

\* connected with the identity unknown, a message sent by the bot that mentions the
\* bot was emitted unmarked and with its placeholder in place
C38_Witness ==
    /\ connected /\ botOpenId = "undefined"
    /\ lastIn.outcome = "delivered"
    /\ lastIn.ev.sender = BOT_OPEN_ID
    /\ lastIn.ev.mentions = << BotMention(K1) >>
    /\ lastIn.msg[1].content = lastIn.ev.content.text
    /\ ~lastIn.msg[1].is_from_me

\* ------------------------------------------ termination of the split (SpecSplit)

\* C39: splitMarkdown(T, L) with L >= 1 terminates: every pass of its loop pushes a
\* chunk and consumes at least one character, so it makes at most len(T) passes;
\* and when T is not empty no chunk is the empty string.
C39_SplitTerminatesWithoutEmptyChunks ==
    splitCall.returned /\ splitCall.maxLen >= 1 =>
        /\ Len(splitCall.chunks) <= Max(1, Len(splitCall.text))
        /\ \A n \in 1..Len(splitCall.separators) :
              Len(splitCall.chunks[n]) + Len(splitCall.separators[n]) >= 1
        /\ splitCall.text # << >>
           => \A n \in 1..Len(splitCall.chunks) : splitCall.chunks[n] # << >>

\* a text that begins with two newlines was split at limit 1 into three chunks of
\* one character
C39_Witness ==
    /\ splitCall.returned
    /\ splitCall.text = << NL, NL, "a", "b" >> /\ splitCall.maxLen = 1
    /\ splitCall.chunks = << << NL >>, << "a" >>, << "b" >> >>

\* ------------------------------------------- getClaudeOAuthToken (SpecTok)

\* C40: getClaudeOAuthToken never throws; it returns null only when the
\* credentials it read hold no access token; it attempts a refresh only when
\* expiresAt is set, less than 5 minutes remain and a refresh token is stored; and
\* when the refresh fails it returns the stored access token and the credentials
\* file is left unchanged.
C40_TokenNeverThrowsRefreshIsSafe ==
    [][ \A k \in TokenCallIds :
          LET before == tokenCall[k]
              after  == tokenCall'[k]
          IN  /\ after.pc = "done" /\ before.pc # "done"
                 => /\ after.outcome = "resolved"
                    /\ after.result = Null
                       => ~after.creds.present \/ after.creds.accessToken = Absent
              /\ after.pc = "fetch" /\ before.pc = "idle"
                 => /\ credentialsFile.present
                    /\ credentialsFile.expiresAt # NoExpiry
                    /\ credentialsFile.expiresAt - now < 5 * 60 * 1000
                    /\ credentialsFile.refreshToken # Absent
              /\ before.pc = "fetch" /\ after.refresh = "failed"
                 => /\ after.result = before.creds.accessToken
                    /\ credentialsFile' = credentialsFile ]_vars

\* two calls refreshed at once: the refresh of one failed and it returned the
\* access token it had read, the other wrote new credentials to the file
C40_Witness ==
    /\ tokenCall[1].pc = "done" /\ tokenCall[1].refresh = "failed"
    /\ tokenCall[1].result = "at0"
    /\ tokenCall[2].pc = "done" /\ tokenCall[2].refresh = "refreshed"
    /\ credentialsFile.accessToken = "at1"

====
